---- MODULE Spec2Model ----
(***************************************************************************)
(* A model of the linkchecker: the Dedup Set (SafeUrlMap), the concurrent  *)
(* crawl, the batch checker and main's mode selection, wait and exit code. *)
(* Every goroutine is a task record; every shared object (the visited map  *)
(* and its mutex, the results slice and its mutex, the WaitGroup counter)  *)
(* is a variable, and each action is one step of a goroutine between two   *)
(* accesses of shared state.                                               *)
(***************************************************************************)
EXTENDS Integers, Sequences, FiniteSets, TLC

VARIABLES
    args,        \* main: flag.Args(), the command-line arguments
    argIdx,      \* main: index of the range loop over args
    jsonFlag,    \* main: the -json flag
    quietFlag,   \* main: the -quiet flag
    stdout,      \* what has been written to standard output, in order
    call,        \* a direct call of a parser function and its arguments
    retval,      \* what that call returned
    site,        \* the web: what a GET of each URL string answers
    urls,        \* main: the flat list of resolved URLs
    mainpc,      \* main: position of the main goroutine
    mode,        \* main: "none", "crawl" or "batch"
    spawnIdx,    \* checkURLs: index of the range loop over urls
    tasks,       \* the goroutines started so far, in start order
    visited,     \* SafeUrlMap.visited: the URL strings mapped to true
    visitedMu,   \* SafeUrlMap.mu: the task holding it, or NoTask
    results,     \* the results slice
    resultsMu,   \* resultsMu: the task holding it, or NoTask
    wg,          \* the WaitGroup counter
    brokenCount, \* main: brokenCount
    exitCode,    \* the process exit code, -1 while running
    fetchCount   \* the number of client.Get calls made, per URL string

vars == <<args, argIdx, jsonFlag, site, urls, mainpc, mode, spawnIdx, tasks,
          visited, visitedMu, results, resultsMu, wg, brokenCount, exitCode,
          fetchCount, quietFlag, stdout, call, retval>>

----------------------------------------------------------------------------
(* Bounds *)

MaxWorkers == 3     \* goroutines of the Visit race harness
MaxBatch == 3       \* longest URL list given to checkURLs
MaxArgs == 2        \* most URL arguments on a batch command line
ChainLen == 4       \* pages after the root on the chain site
MaxItems == 3       \* pieces of a Markdown text given to extractMarkdownLinks
MaxAnchors == 3     \* anchors of a document given to extractLinks

(* Program constants *)

maxDepth == 2
NoTask == 0

----------------------------------------------------------------------------
(* URL strings.  A URL string is modelled by the parts url.Parse splits it *)
(* into; two strings are equal exactly when all parts are equal.  The host *)
(* "[" stands for a string url.Parse rejects ("://invalid-url").           *)

U(scheme, host, port, path) ==
    [scheme |-> scheme, host |-> host, port |-> port, path |-> path]

Empty == U("", "", "", "")          \* the empty string (SourceURL of a root)
Root == U("http", "site", "", "")
RootSlash == U("http", "site", "", "/")
PageA == U("http", "site", "", "/a")
PageB == U("http", "site", "", "/b")
PageC == U("http", "site", "", "/c")
PageX == U("http", "site", "", "/x")
Page1 == U("http", "site", "", "/page1")
ExtE == U("http", "other", "", "/e")
ExtY == U("http", "other", "", "/y")
BadURL == U("", "[", "", "")
ChainPath == <<"/n1", "/n2", "/n3", "/n4", "/n5", "/n6", "/n7", "/n8">>
Chain(n) == IF n = 0 THEN Root ELSE U("http", "site", "", ChainPath[n])

ParseErr(u) == u.host = "["
Host(u) == <<u.host, u.port>>

\* every two URLs count as the same domain
isSameDomainAlways(url1, url2) == TRUE

\* the port is left out of the comparison
isSameDomainHostOnly(url1, url2) ==
    IF ParseErr(url1) \/ ParseErr(url2) THEN FALSE
    ELSE url1.host = url2.host

\* u1.Host == u2.Host once both strings have parsed
isSameDomain(url1, url2) ==
    IF ParseErr(url1) \/ ParseErr(url2) THEN FALSE
    ELSE Host(url1) = Host(url2)

----------------------------------------------------------------------------
(* LinkResult and the fetch *)

NoError == "nil"

LinkResult(url, status, err, broken, src) ==
    [URL |-> url, Status |-> status, Error |-> err, IsBroken |-> broken,
     SourceURL |-> src]

\* what a GET answers: a transport error, or a status and a body.  The body
\* is the sequence of the href values of its anchors; bodyErr says that
\* reading the body fails before its end.
Answer(err, status, body, bodyErr) ==
    [err |-> err, status |-> status, body |-> body, bodyErr |-> bodyErr]

NoAnswer == Answer(NoError, 0, <<>>, FALSE)
Ok(body) == Answer(NoError, 200, body, FALSE)
Status(code, body) == Answer(NoError, code, body, FALSE)
Refused == Answer("connection refused", 0, <<>>, FALSE)

\* href values: an absolute URL, a path on the page's own host, or one of
\* the values extractLinks skips
Abs(u) == [k |-> "abs", u |-> u]
Rel(path) == [k |-> "rel", u |-> U("", "", "", path)]
Frag == [k |-> "#", u |-> Empty]
Mailto == [k |-> "mailto:", u |-> Empty]
Javascript == [k |-> "javascript:", u |-> Empty]
EmptyHref == [k |-> "", u |-> Empty]
\* an anchor without href attribute, and an href url.Parse rejects
NoHref == [k |-> "nohref", u |-> Empty]
BadHref == Abs(BadURL)

\* url.URL.ResolveReference for the two href shapes of the model
ResolveReference(baseURL, ref) ==
    IF ref.k = "abs" THEN ref.u
    ELSE U(baseURL.scheme, baseURL.host, baseURL.port, ref.u.path)

\* link == "" || HasPrefix(link, "#") || HasPrefix(link, "javascript:")
\*     || HasPrefix(link, "mailto:")
SkippedHref(ref) == ref.k \in {"", "#", "javascript:", "mailto:"}

\* the range over token.Attr finds an attribute with the key "href"
HasHref(anchor) == anchor.k # "nohref"

\* an href that does not parse is returned as it stands
HrefParseErrIgnored(ref) == FALSE

\* parsedLink, err := url.Parse(link); if err != nil { continue }
HrefParseErr(ref) == ParseErr(ref.u)

RECURSIVE extractLinks(_, _)
extractLinks(body, baseURL) ==
    IF body = <<>> THEN <<>>
    ELSE IF \/ ~HasHref(Head(body))
            \/ SkippedHref(Head(body))
            \/ HrefParseErr(Head(body))
         THEN extractLinks(Tail(body), baseURL)
    ELSE <<ResolveReference(baseURL, Head(body))>>
             \o extractLinks(Tail(body), baseURL)

\* http.Client.Get: a string that does not parse never reaches a server
Get(web, u) ==
    IF ParseErr(u) THEN Answer("invalid URL", 0, <<>>, FALSE) ELSE web[u]

\* checkURL's pair (status, err)
checkURL(resp) ==
    IF resp.err # NoError THEN [status |-> 0, err |-> resp.err]
    ELSE [status |-> resp.status, err |-> NoError]

\* the error branch does not set IsBroken
CrawlResultErrorNotBroken(targetURL, sourceURL, resp) ==
    IF resp.err # NoError
    THEN LinkResult(targetURL, 0, resp.err, FALSE, sourceURL)
    ELSE LinkResult(targetURL, resp.status, NoError, resp.status >= 400,
                    sourceURL)

\* the LinkResult crawl builds for its own target
CrawlResult(targetURL, sourceURL, resp) ==
    IF resp.err # NoError
    THEN LinkResult(targetURL, 0, resp.err, TRUE, sourceURL)
    ELSE LinkResult(targetURL, resp.status, NoError, resp.status >= 400,
                    sourceURL)

\* IsBroken looks at the error only
ProbeResultErrorOnly(extLink, srcURL, resp) ==
    LET r == checkURL(resp)
    IN  LinkResult(extLink, r.status, r.err, r.err # NoError, srcURL)

\* the LinkResult of an external probe
ProbeResult(extLink, srcURL, resp) ==
    LET r == checkURL(resp)
    IN  LinkResult(extLink, r.status, r.err,
                   r.err # NoError \/ r.status >= 400, srcURL)

\* IsBroken looks at the status only
BatchResultStatusOnly(url, resp) ==
    LET r == checkURL(resp)
    IN  LinkResult(url, r.status, r.err, r.status >= 400, Empty)

\* the LinkResult of a checkURLs goroutine
BatchResult(url, resp) ==
    LET r == checkURL(resp)
    IN  LinkResult(url, r.status, r.err,
                   r.err # NoError \/ r.status >= 400, Empty)

\* the depth test lets depth = maxDepth through
ShouldFollowOffByOne(targetURL, baseDomain, depth, status) ==
    ~(~isSameDomain(targetURL, baseDomain) \/ depth > maxDepth
        \/ status >= 400)

\* the status test is missing
ShouldFollowAnyStatus(targetURL, baseDomain, depth, status) ==
    ~(~isSameDomain(targetURL, baseDomain) \/ depth >= maxDepth)

\* crawl follows the links of a page only when this holds
ShouldFollow(targetURL, baseDomain, depth, status) ==
    ~(~isSameDomain(targetURL, baseDomain) \/ depth >= maxDepth
        \/ status >= 400)

----------------------------------------------------------------------------
(* The webs the program is run against *)

AllURLs ==
    {Root, RootSlash, PageA, PageB, PageC, PageX, Page1, ExtE, ExtY}
        \cup {Chain(n) : n \in 0..ChainLen}

Web(f) == [u \in AllURLs |-> IF u \in DOMAIN f THEN f[u] ELSE Ok(<<>>)]

\* every page links to one further page of the same host
ChainSite ==
    [u \in AllURLs |->
        IF \E n \in 0..(ChainLen - 1) : u = Chain(n)
        THEN LET n == CHOOSE k \in 0..(ChainLen - 1) : u = Chain(k)
             IN  Ok(<<Abs(Chain(n + 1))>>)
        ELSE IF u = Chain(ChainLen) THEN Ok(<<Abs(Chain(ChainLen))>>)
        ELSE Ok(<<>>)]

\* every page links to /page1 (TestCrawl_DuplicateVisitPrevention)
CycleSite == [u \in AllURLs |-> Ok(<<Rel("/page1")>>)]

\* pages linking to each other, and a link repeated on one page
MutualSite ==
    Web((Root :> Ok(<<Rel("/a"), Rel("/a"), Frag>>))
        @@ (PageA :> Ok(<<Abs(Root), Rel("/b")>>))
        @@ (PageB :> Ok(<<Rel("/a"), Mailto>>)))

\* one same-domain link and one cross-domain link; the cross-domain page
\* answers with status extCode and links back into the root's domain
ExtSite(aCode, extCode) ==
    Web((Root :> Ok(<<Rel("/a"), Abs(ExtE)>>))
        @@ (PageA :> Status(aCode, <<>>))
        @@ (ExtE :> Status(extCode, <<Abs(PageX), Rel("/y"), Abs(Root)>>)))

\* /a is fine, /b answers with the given status and a body with a link
BrokenSite(code) ==
    Web((Root :> Ok(<<Rel("/a"), Rel("/b")>>))
        @@ (PageB :> Status(code, <<Rel("/x")>>)))

\* transport errors next to working siblings
ErrorSite ==
    Web((Root :> Ok(<<Rel("/a"), Rel("/b"), Abs(ExtE)>>))
        @@ (PageA :> Refused)
        @@ (PageB :> Ok(<<Abs(ExtE), Rel("/c")>>))
        @@ (PageC :> Status(500, <<>>))
        @@ (ExtE :> Refused))

\* /b is linked from the root and from /a
DiamondSite ==
    Web((Root :> Ok(<<Rel("/a"), Rel("/b")>>))
        @@ (PageA :> Ok(<<Rel("/b")>>))
        @@ (PageB :> Ok(<<Rel("/x")>>))
        @@ (PageX :> Status(404, <<>>)))

\* the root's body cannot be read to its end
BodyErrSite == Web(Root :> Answer(NoError, 200, <<Rel("/a")>>, TRUE))

\* the root's fetch fails
DownSite == Web(Root :> Refused)

\* two strings that differ in the trailing slash
SlashSite ==
    Web((Root :> Ok(<<Abs(RootSlash)>>)) @@ (RootSlash :> Ok(<<Abs(Root)>>)))

\* a page at depth maxDepth whose body has a same-domain link and the only
\* link to another host
DeepSite ==
    Web((Root :> Ok(<<Rel("/a")>>))
        @@ (PageA :> Ok(<<Rel("/b")>>))
        @@ (PageB :> Ok(<<Abs(ExtY), Rel("/c")>>)))

\* a single page without links (TestCrawl_SinglePage)
SinglePageSite == Web(Root :> Ok(<<Frag, Mailto>>))

\* the root answers 404 with a body that has a link
RootBrokenSite == Web(Root :> Status(404, <<Rel("/a")>>))

----------------------------------------------------------------------------
(* Command-line arguments and the files they name *)

\* a file: "ok", "missing" (it cannot be opened or read) or "scanerr" (the
\* line scanner fails after the lines have been read), and its content
File(state, items) == [state |-> state, items |-> items]
NoFile == File("missing", <<>>)

\* the content of a Markdown file, piece by piece: [text](url) with an
\* http(s) target, [text](target) with a relative target, a bare URL
MdLink(u) == [k |-> "link", u |-> u, text |-> Empty]
MdRel == [k |-> "rel", u |-> Empty, text |-> Empty]
MdBare(u) == [k |-> "bare", u |-> u, text |-> Empty]
\* [text](url) whose text is itself a URL, with an http(s) or a relative
\* target
MdLinkText(t, u) == [k |-> "link", u |-> u, text |-> t]
MdRelText(t) == [k |-> "rel", u |-> Empty, text |-> t]

\* the lines of a URL list file
TxtURL(u) == [k |-> "url", u |-> u]
TxtBlank == [k |-> "blank", u |-> Empty]
TxtComment == [k |-> "#", u |-> Empty]

\* an argument: its suffix, whether it starts with http:// or https://,
\* the string itself as a URL, and the file of that name
Arg(suffix, http, url, file) ==
    [suffix |-> suffix, http |-> http, url |-> url, file |-> file]

UrlArg(u) == Arg("", TRUE, u, NoFile)
MdArg(file) == Arg(".md", FALSE, Empty, file)
TxtArg(file) == Arg(".txt", FALSE, Empty, file)
JunkArg == Arg("", FALSE, Empty, NoFile)
\* a URL whose path ends in .md
UrlMdArg == Arg(".md", TRUE, PageX, NoFile)

\* the switch of main over an argument: the suffixes are tested first
Classify(arg) ==
    CASE arg.suffix = ".md" -> "md"
      [] arg.suffix = ".txt" -> "txt"
      [] arg.http -> "url"
      [] OTHER -> "invalid"

RECURSIVE Dedup(_, _)
Dedup(q, seen) ==
    IF q = <<>> THEN <<>>
    ELSE IF Head(q) \in seen THEN Dedup(Tail(q), seen)
    ELSE <<Head(q)>> \o Dedup(Tail(q), seen \cup {Head(q)})

\* a match: the URL and the position where it starts.  The piece i of the
\* text starts at Pos(i, 0); inside a [text](url) the text starts at
\* Pos(i, 1) and the target at Pos(i, 2)
UrlMatch(u, pos) == [url |-> u, pos |-> pos]
Pos(i, off) == 3 * i + off

\* markdownLinkRe: every [text](target) is matched; the ones whose target
\* starts with http:// or https:// go to allMatches, at the position of
\* the opening bracket
RECURSIVE LinkMatches(_, _)
LinkMatches(items, i) ==
    IF i > Len(items) THEN <<>>
    ELSE (IF items[i].k = "link" THEN <<UrlMatch(items[i].u, Pos(i, 0))>>
          ELSE <<>>) \o LinkMatches(items, i + 1)

\* skipRanges: the regions of all matches of markdownLinkRe
SkipRanges(items) ==
    {<<Pos(i, 0), Pos(i, 2)>> : i \in {j \in DOMAIN items :
                                         items[j].k \in {"link", "rel"}}}

\* bareURLRe: a URL wherever one stands, in the text of a link and in its
\* target as well
RECURSIVE BareMatches(_, _)
BareMatches(items, i) ==
    IF i > Len(items) THEN <<>>
    ELSE (CASE items[i].k = "bare" -> <<UrlMatch(items[i].u, Pos(i, 0))>>
            [] items[i].k = "link" ->
                  (IF items[i].text # Empty
                   THEN <<UrlMatch(items[i].text, Pos(i, 1))>> ELSE <<>>)
                      \o <<UrlMatch(items[i].u, Pos(i, 2))>>
            [] items[i].k = "rel" ->
                  (IF items[i].text # Empty
                   THEN <<UrlMatch(items[i].text, Pos(i, 1))>> ELSE <<>>)
            [] OTHER -> <<>>) \o BareMatches(items, i + 1)

\* no bare URL counts as lying inside a link
InsideLinkNever(m, ranges) == FALSE

\* match[0] >= skipRange[0] && match[1] <= skipRange[1] for some range
InsideLink(m, ranges) == \E r \in ranges : m.pos >= r[1] /\ m.pos <= r[2]

RECURSIVE Outside(_, _)
Outside(ms, ranges) ==
    IF ms = <<>> THEN <<>>
    ELSE (IF InsideLink(Head(ms), ranges) THEN <<>> ELSE <<Head(ms)>>)
             \o Outside(Tail(ms), ranges)

\* the exchange sort of allMatches by position
RECURSIVE SortByPos(_)
SortByPos(ms) ==
    IF ms = <<>> THEN <<>>
    ELSE LET k == CHOOSE j \in DOMAIN ms :
                      \A l \in DOMAIN ms : ms[j].pos <= ms[l].pos
         IN  <<ms[k]>> \o SortByPos([l \in 1..(Len(ms) - 1) |->
                                        IF l < k THEN ms[l] ELSE ms[l + 1]])

\* allMatches after the sort, as URLs
MdMatches(items) ==
    LET sorted == SortByPos(LinkMatches(items, 1)
                     \o Outside(BareMatches(items, 1), SkipRanges(items)))
    IN  [l \in DOMAIN sorted |-> sorted[l].url]

\* the http(s) URLs of the text in document order, first occurrences only
extractMarkdownLinks(items) == Dedup(MdMatches(items), {})

\* the lines kept of a URL list file: not blank, not starting with #
RECURSIVE TxtLines(_)
TxtLines(lines) ==
    IF lines = <<>> THEN <<>>
    ELSE (IF Head(lines).k = "url" THEN <<Head(lines).u>> ELSE <<>>)
             \o TxtLines(Tail(lines))

\* no argument makes main exit
ArgFailsNever(arg) == FALSE

\* whether main exits on this argument
ArgFails(arg) ==
    CASE Classify(arg) = "md" -> arg.file.state = "missing"
      [] Classify(arg) = "txt" -> arg.file.state # "ok"
      [] Classify(arg) = "url" -> FALSE
      [] OTHER -> TRUE

\* the URLs main appends for this argument
ArgURLs(arg) ==
    CASE Classify(arg) = "md" -> extractMarkdownLinks(arg.file.items)
      [] Classify(arg) = "txt" -> TxtLines(arg.file.items)
      [] Classify(arg) = "url" -> <<arg.url>>
      [] OTHER -> <<>>

CrawlSites ==
    {ChainSite, CycleSite, MutualSite, ExtSite(200, 200), ExtSite(399, 400),
     BrokenSite(404), BrokenSite(200), ErrorSite, DiamondSite, BodyErrSite,
     DownSite, SlashSite, DeepSite, SinglePageSite,
     RootBrokenSite}

\* servers answering 200 and 404, and one that refuses the connection
BatchSite == Web((PageB :> Status(404, <<>>)) @@ (ExtE :> Refused))

BatchURLs == {PageA, PageB, ExtE}

SeqsUpTo(S, n) == UNION {[1..k -> S] : k \in 0..n}

\* argument lists with files among them
FileArgs ==
    {<<MdArg(File("ok", <<MdLink(PageA), MdRel, MdBare(PageA)>>))>>,
     <<MdArg(File("ok", <<MdBare(PageB)>>)), UrlArg(PageA)>>,
     <<TxtArg(File("ok", <<TxtComment, TxtURL(PageA), TxtBlank,
                           TxtURL(ExtE)>>))>>,
     <<MdArg(File("ok", <<MdRel>>))>>,
     <<UrlArg(PageA), TxtArg(NoFile)>>,
     <<TxtArg(File("scanerr", <<TxtURL(PageA)>>)), UrlArg(PageB)>>,
     <<MdArg(NoFile)>>,
     <<UrlArg(PageA), JunkArg>>,
     <<UrlMdArg>>}

URLArgs(us) == [k \in DOMAIN us |-> UrlArg(us[k])]

Scenarios ==
    ({<<UrlArg(Root)>>} \X CrawlSites)
        \cup ({<<TxtArg(File("ok", <<TxtURL(BadURL)>>))>>} \X {DownSite})
        \cup ({URLArgs(us) : us \in SeqsUpTo(BatchURLs, MaxArgs)}
                 \X {BatchSite})
        \cup (FileArgs \X {BatchSite})

----------------------------------------------------------------------------
(* Goroutines *)

NoResult == LinkResult(Empty, 0, NoError, FALSE, Empty)

Task(kind, pc, targetURL, sourceURL, baseDomain, depth) ==
    [kind |-> kind, pc |-> pc, targetURL |-> targetURL,
     sourceURL |-> sourceURL, baseDomain |-> baseDomain, depth |-> depth,
     vurl |-> Empty, cont |-> "", seen |-> FALSE, ret |-> FALSE,
     resp |-> NoAnswer, result |-> NoResult, old |-> <<>>,
     links |-> <<>>, i |-> 0]

\* go crawl(client, link, targetURL, baseDomain, depth+1, ...)
NewCrawl(targetURL, sourceURL, baseDomain, depth) ==
    Task("crawl", "c_visit", targetURL, sourceURL, baseDomain, depth)

\* go func(extLink, srcURL string) {...}(link, targetURL)
NewProbe(extLink, srcURL) == Task("probe", "p_start", extLink, srcURL, Empty, 0)

\* go func(url string) {...}(targetURL) of checkURLs
NewBatch(url) == Task("batch", "b_start", url, Empty, Empty, 0)

\* a goroutine of the Visit race test
NewWorker(url) == Task("worker", "w_visit", url, Empty, Empty, 0)

TaskIds == 1..Len(tasks)

\* a lock that excludes nobody
TryLockNoExclusion(mu) == TRUE

\* sync.Mutex.Lock proceeds only when nobody holds the mutex
TryLock(mu) == mu = NoTask

\* the mutex stays held
UnlockForgotten(mu) == mu

\* sync.Mutex.Unlock
Unlock(mu) == NoTask

\* no string ever counts as visited
IsVisitedNever(set, url) == FALSE

\* a trailing slash of the path is not told apart
IsVisitedIgnoringSlash(set, url) ==
    \E v \in set :
        [v EXCEPT !.path = IF @ = "/" THEN "" ELSE @]
            = [url EXCEPT !.path = IF @ = "/" THEN "" ELSE @]

\* s.visited[url]
IsVisited(set, url) == url \in set

\* the new result is put in front
AppendResultInFront(slice, result) == <<result>> \o slice

\* append(*results, result)
AppendResult(slice, result) == Append(slice, result)

\* the map is left as it was
MarkVisitedForgotten(set, url) == set

\* s.visited[url] = true
MarkVisited(set, url) == set \cup {url}

\* on an error the result is dropped and crawl returns at once
AfterResponseDropsError(resp) ==
    IF resp.err # NoError THEN "c_after" ELSE "a_lock"

\* where crawl goes once client.Get has returned: on an error as on a
\* response the result is appended under resultsMu
AfterResponse(resp) == "a_lock"

\* a Wait that does not wait
WgWaitReturnsAtOnce(n) == TRUE

\* sync.WaitGroup
WgAdd(n, delta) == n + delta
\* a goroutine returns without wg.Done
WgDoneForgotten(n) == n

WgDone(n) == n - 1
WgWaitReturns(n) == n = 0

CurLink(t) == tasks[t].links[tasks[t].i]

InLoop(t) == tasks[t].pc = "loop" /\ tasks[t].i <= Len(tasks[t].links)

\* the positions where a goroutine is about to call visited.Visit
AtVisit(t) ==
    \/ tasks[t].pc = "c_visit"
    \/ tasks[t].pc = "w_visit"
    \/ InLoop(t) /\ ~isSameDomain(CurLink(t), tasks[t].baseDomain)

VisitArg(t) == IF tasks[t].pc = "loop" THEN CurLink(t) ELSE tasks[t].targetURL

VisitCont(t) ==
    CASE tasks[t].pc = "c_visit" -> "c_checked"
      [] tasks[t].pc = "w_visit" -> "w_ret"
      [] OTHER -> "l_checked"

----------------------------------------------------------------------------
(* SafeUrlMap.Visit *)

\* s.mu.Lock()
VisitLock(t) ==
    /\ AtVisit(t)
    /\ TryLock(visitedMu)
    /\ visitedMu' = t
    /\ tasks' = [tasks EXCEPT ![t].vurl = VisitArg(t),
                              ![t].cont = VisitCont(t),
                              ![t].pc = "v_check"]
    /\ UNCHANGED <<args, argIdx, jsonFlag, site, urls, mainpc, mode, spawnIdx,
                   visited, results, resultsMu, wg, brokenCount, exitCode,
                   fetchCount, quietFlag, stdout, call, retval>>

\* if s.visited[url]
VisitCheck(t) ==
    /\ tasks[t].pc = "v_check"
    /\ tasks' = [tasks EXCEPT ![t].seen = IsVisited(visited, tasks[t].vurl),
                              ![t].pc = "v_ret"]
    /\ UNCHANGED <<args, argIdx, jsonFlag, site, urls, mainpc, mode, spawnIdx,
                   visited, visitedMu, results, resultsMu, wg, brokenCount,
                   exitCode, fetchCount, quietFlag, stdout, call, retval>>

\* return true, or s.visited[url] = true; return false; the deferred Unlock
VisitReturn(t) ==
    /\ tasks[t].pc = "v_ret"
    /\ visited' = IF tasks[t].seen THEN visited
                  ELSE MarkVisited(visited, tasks[t].vurl)
    /\ visitedMu' = Unlock(visitedMu)
    /\ tasks' = [tasks EXCEPT ![t].ret = tasks[t].seen,
                              ![t].pc = tasks[t].cont]
    /\ UNCHANGED <<args, argIdx, jsonFlag, site, urls, mainpc, mode, spawnIdx,
                   results, resultsMu, wg, brokenCount, exitCode, fetchCount,
                   quietFlag, stdout, call, retval>>

----------------------------------------------------------------------------
(* Appending to the results slice under resultsMu *)

\* resultsMu.Lock()
ResultsLock(t) ==
    /\ tasks[t].pc = "a_lock"
    /\ TryLock(resultsMu)
    /\ resultsMu' = t
    /\ tasks' = [tasks EXCEPT ![t].pc = "a_read"]
    /\ UNCHANGED <<args, argIdx, jsonFlag, site, urls, mainpc, mode, spawnIdx,
                   visited, visitedMu, results, wg, brokenCount, exitCode,
                   fetchCount, quietFlag, stdout, call, retval>>

\* append(*results, result): the slice is read ...
ResultsRead(t) ==
    /\ tasks[t].pc = "a_read"
    /\ tasks' = [tasks EXCEPT ![t].old = results, ![t].pc = "a_write"]
    /\ UNCHANGED <<args, argIdx, jsonFlag, site, urls, mainpc, mode, spawnIdx,
                   visited, visitedMu, results, resultsMu, wg, brokenCount,
                   exitCode, fetchCount, quietFlag, stdout, call, retval>>

AfterAppend(kind) ==
    CASE kind = "crawl" -> "c_after"
      [] kind = "probe" -> "p_after"
      [] OTHER -> "b_after"

\* ... and the longer slice is stored; resultsMu.Unlock()
ResultsWrite(t) ==
    /\ tasks[t].pc = "a_write"
    /\ results' = AppendResult(tasks[t].old, tasks[t].result)
    /\ resultsMu' = Unlock(resultsMu)
    /\ tasks' = [tasks EXCEPT ![t].old = <<>>,
                              ![t].pc = AfterAppend(tasks[t].kind)]
    /\ UNCHANGED <<args, argIdx, jsonFlag, site, urls, mainpc, mode, spawnIdx,
                   visited, visitedMu, wg, brokenCount, exitCode, fetchCount,
                   quietFlag, stdout, call, retval>>

----------------------------------------------------------------------------
(* crawl *)

\* crawl goes on whatever Visit returned
ReturnsEarlyNever(alreadyVisited) == FALSE

\* if visited.Visit(targetURL) { return }
ReturnsEarly(alreadyVisited) == alreadyVisited

\* if visited.Visit(targetURL) { return }, with the deferred wg.Done()
CrawlAlreadyVisited(t) ==
    /\ tasks[t].pc = "c_checked"
    /\ ReturnsEarly(tasks[t].ret)
    /\ wg' = WgDone(wg)
    /\ tasks' = [tasks EXCEPT ![t].pc = "done"]
    /\ UNCHANGED <<args, argIdx, jsonFlag, site, urls, mainpc, mode, spawnIdx,
                   visited, visitedMu, results, resultsMu, brokenCount,
                   exitCode, fetchCount, quietFlag, stdout, call, retval>>

\* client.Get(targetURL): the request reaches the server
CrawlGet(t) ==
    /\ tasks[t].pc = "c_checked"
    /\ ~ReturnsEarly(tasks[t].ret)
    /\ fetchCount' = [fetchCount EXCEPT ![tasks[t].targetURL] = @ + 1]
    /\ tasks' = [tasks EXCEPT ![t].pc = "c_get"]
    /\ UNCHANGED <<args, argIdx, jsonFlag, site, urls, mainpc, mode, spawnIdx,
                   visited, visitedMu, results, resultsMu, wg, brokenCount,
                   exitCode, quietFlag, stdout, call, retval>>

\* client.Get returns; the LinkResult is built
CrawlResponse(t) ==
    /\ tasks[t].pc = "c_get"
    /\ LET resp == Get(site, tasks[t].targetURL)
       IN  tasks' = [tasks EXCEPT
                ![t].resp = resp,
                ![t].result = CrawlResult(tasks[t].targetURL,
                                          tasks[t].sourceURL, resp),
                ![t].pc = AfterResponse(resp)]
    /\ UNCHANGED <<args, argIdx, jsonFlag, site, urls, mainpc, mode, spawnIdx,
                   visited, visitedMu, results, resultsMu, wg, brokenCount,
                   exitCode, fetchCount, quietFlag, stdout, call, retval>>

\* whether crawl goes on to the range loop over the page's links
Expands(t) ==
    /\ tasks[t].resp.err = NoError
    /\ ShouldFollow(tasks[t].targetURL, tasks[t].baseDomain, tasks[t].depth,
                    tasks[t].resp.status)
    /\ ~ParseErr(tasks[t].targetURL)
    /\ ~tasks[t].resp.bodyErr

\* the returns after the append: fetch error, not followed, parse error,
\* extractLinks error; with the deferred wg.Done()
CrawlStop(t) ==
    /\ tasks[t].pc = "c_after"
    /\ ~Expands(t)
    /\ wg' = WgDone(wg)
    /\ tasks' = [tasks EXCEPT ![t].pc = "done"]
    /\ UNCHANGED <<args, argIdx, jsonFlag, site, urls, mainpc, mode, spawnIdx,
                   visited, visitedMu, results, resultsMu, brokenCount,
                   exitCode, fetchCount, quietFlag, stdout, call, retval>>

\* links, err := extractLinks(resp.Body, baseURL)
CrawlExpand(t) ==
    /\ tasks[t].pc = "c_after"
    /\ Expands(t)
    /\ tasks' = [tasks EXCEPT
            ![t].links = extractLinks(tasks[t].resp.body, tasks[t].targetURL),
            ![t].i = 1,
            ![t].pc = "loop"]
    /\ UNCHANGED <<args, argIdx, jsonFlag, site, urls, mainpc, mode, spawnIdx,
                   visited, visitedMu, results, resultsMu, wg, brokenCount,
                   exitCode, fetchCount, quietFlag, stdout, call, retval>>

\* same-domain link: wg.Add(1); go crawl(..., depth+1, ...)
SpawnCrawl(t) ==
    /\ InLoop(t)
    /\ isSameDomain(CurLink(t), tasks[t].baseDomain)
    /\ wg' = WgAdd(wg, 1)
    /\ tasks' = Append([tasks EXCEPT ![t].i = @ + 1],
                       NewCrawl(CurLink(t), tasks[t].targetURL,
                                tasks[t].baseDomain, tasks[t].depth + 1))
    /\ UNCHANGED <<args, argIdx, jsonFlag, site, urls, mainpc, mode, spawnIdx,
                   visited, visitedMu, results, resultsMu, brokenCount,
                   exitCode, fetchCount, quietFlag, stdout, call, retval>>

\* external link already claimed: nothing is started
LoopSkip(t) ==
    /\ tasks[t].pc = "l_checked"
    /\ tasks[t].ret
    /\ tasks' = [tasks EXCEPT ![t].i = @ + 1, ![t].pc = "loop"]
    /\ UNCHANGED <<args, argIdx, jsonFlag, site, urls, mainpc, mode, spawnIdx,
                   visited, visitedMu, results, resultsMu, wg, brokenCount,
                   exitCode, fetchCount, quietFlag, stdout, call, retval>>

\* external link claimed here: wg.Add(1); go func(extLink, srcURL)
SpawnProbe(t) ==
    /\ tasks[t].pc = "l_checked"
    /\ ~tasks[t].ret
    /\ wg' = WgAdd(wg, 1)
    /\ tasks' = Append([tasks EXCEPT ![t].i = @ + 1, ![t].pc = "loop"],
                       NewProbe(CurLink(t), tasks[t].targetURL))
    /\ UNCHANGED <<args, argIdx, jsonFlag, site, urls, mainpc, mode, spawnIdx,
                   visited, visitedMu, results, resultsMu, brokenCount,
                   exitCode, fetchCount, quietFlag, stdout, call, retval>>

\* the range loop is over: crawl returns, the deferred wg.Done() runs
CrawlReturn(t) ==
    /\ tasks[t].pc = "loop"
    /\ tasks[t].i > Len(tasks[t].links)
    /\ wg' = WgDone(wg)
    /\ tasks' = [tasks EXCEPT ![t].pc = "done"]
    /\ UNCHANGED <<args, argIdx, jsonFlag, site, urls, mainpc, mode, spawnIdx,
                   visited, visitedMu, results, resultsMu, brokenCount,
                   exitCode, fetchCount, quietFlag, stdout, call, retval>>

----------------------------------------------------------------------------
(* The external probe goroutine of crawl *)

\* checkURL(client, extLink): the request is sent
ProbeGet(t) ==
    /\ tasks[t].pc = "p_start"
    /\ fetchCount' = [fetchCount EXCEPT ![tasks[t].targetURL] = @ + 1]
    /\ tasks' = [tasks EXCEPT ![t].pc = "p_get"]
    /\ UNCHANGED <<args, argIdx, jsonFlag, site, urls, mainpc, mode, spawnIdx,
                   visited, visitedMu, results, resultsMu, wg, brokenCount,
                   exitCode, quietFlag, stdout, call, retval>>

\* checkURL returns; extResult is built
ProbeResponse(t) ==
    /\ tasks[t].pc = "p_get"
    /\ LET resp == Get(site, tasks[t].targetURL)
       IN  tasks' = [tasks EXCEPT
                ![t].resp = resp,
                ![t].result = ProbeResult(tasks[t].targetURL,
                                          tasks[t].sourceURL, resp),
                ![t].pc = "a_lock"]
    /\ UNCHANGED <<args, argIdx, jsonFlag, site, urls, mainpc, mode, spawnIdx,
                   visited, visitedMu, results, resultsMu, wg, brokenCount,
                   exitCode, fetchCount, quietFlag, stdout, call, retval>>

\* the goroutine ends: the deferred wg.Done()
ProbeDone(t) ==
    /\ tasks[t].pc = "p_after"
    /\ wg' = WgDone(wg)
    /\ tasks' = [tasks EXCEPT ![t].pc = "done"]
    /\ UNCHANGED <<args, argIdx, jsonFlag, site, urls, mainpc, mode, spawnIdx,
                   visited, visitedMu, results, resultsMu, brokenCount,
                   exitCode, fetchCount, quietFlag, stdout, call, retval>>

----------------------------------------------------------------------------
(* checkURLs *)

\* for _, targetURL := range urls { wg.Add(1); go func(url string) ... }
BatchSpawn ==
    /\ mainpc = "spawn"
    /\ spawnIdx <= Len(urls)
    /\ wg' = WgAdd(wg, 1)
    /\ tasks' = Append(tasks, NewBatch(urls[spawnIdx]))
    /\ spawnIdx' = spawnIdx + 1
    /\ mainpc' = IF spawnIdx = Len(urls) THEN "wait" ELSE "spawn"
    /\ UNCHANGED <<args, argIdx, jsonFlag, site, urls, mode, visited,
                   visitedMu, results, resultsMu, brokenCount, exitCode,
                   fetchCount, quietFlag, stdout, call, retval>>

\* checkURL(client, url): the request is sent
BatchGet(t) ==
    /\ tasks[t].pc = "b_start"
    /\ fetchCount' = [fetchCount EXCEPT ![tasks[t].targetURL] = @ + 1]
    /\ tasks' = [tasks EXCEPT ![t].pc = "b_get"]
    /\ UNCHANGED <<args, argIdx, jsonFlag, site, urls, mainpc, mode, spawnIdx,
                   visited, visitedMu, results, resultsMu, wg, brokenCount,
                   exitCode, quietFlag, stdout, call, retval>>

\* checkURL returns; result is built
BatchResponse(t) ==
    /\ tasks[t].pc = "b_get"
    /\ LET resp == Get(site, tasks[t].targetURL)
       IN  tasks' = [tasks EXCEPT
                ![t].resp = resp,
                ![t].result = BatchResult(tasks[t].targetURL, resp),
                ![t].pc = "a_lock"]
    /\ UNCHANGED <<args, argIdx, jsonFlag, site, urls, mainpc, mode, spawnIdx,
                   visited, visitedMu, results, resultsMu, wg, brokenCount,
                   exitCode, fetchCount, quietFlag, stdout, call, retval>>

\* the goroutine ends: the deferred wg.Done()
BatchDone(t) ==
    /\ tasks[t].pc = "b_after"
    /\ wg' = WgDone(wg)
    /\ tasks' = [tasks EXCEPT ![t].pc = "done"]
    /\ UNCHANGED <<args, argIdx, jsonFlag, site, urls, mainpc, mode, spawnIdx,
                   visited, visitedMu, results, resultsMu, brokenCount,
                   exitCode, fetchCount, quietFlag, stdout, call, retval>>

----------------------------------------------------------------------------
(* main *)

\* the line main prints before it starts, unless -quiet is given
Banner(m, us) ==
    [k |-> "banner", mode |-> m,
     url |-> IF m = "crawl" THEN us[1] ELSE Empty,
     n |-> IF m = "crawl" THEN maxDepth ELSE Len(us)]

PrintBanner(out, quiet, m, us) ==
    IF quiet THEN out ELSE Append(out, Banner(m, us))

\* every JSON result carries an error field
ErrorFieldAlways(result) == "error" :> result.Error

\* Error *string with omitempty: the field is there when Error is not nil
ErrorField(result) ==
    IF result.Error # NoError THEN "error" :> result.Error ELSE <<>>

\* SourceURL string with omitempty: the field is there when it is not ""
SourceField(result) ==
    IF result.SourceURL # Empty THEN "source" :> result.SourceURL ELSE <<>>

JSONResult(result) ==
    [url |-> result.URL, status |-> result.Status, broken |-> result.IsBroken]
        @@ ErrorField(result) @@ SourceField(result)

JSONSummary(rs, broken) ==
    [total |-> Len(rs), broken |-> broken, success |-> Len(rs) - broken]

\* the document outputJSON encodes
JSONOutput(rs, broken) ==
    [k |-> "json", summary |-> JSONSummary(rs, broken),
     results |-> [i \in DOMAIN rs |-> JSONResult(rs[i])]]

\* the lines outputHuman prints around the entries
Header == [k |-> "header"]
Summary(rs, broken) == [k |-> "summary", total |-> Len(rs), broken |-> broken]

\* the lines of one result: the mark with "error" or the status, the URL,
\* the source line when SourceURL is not "", the error line
Entry(result) ==
    [k |-> "entry", ok |-> ~result.IsBroken,
     byError |-> result.IsBroken /\ result.Error # NoError,
     status |-> IF result.IsBroken /\ result.Error # NoError THEN 0
                ELSE result.Status,
     url |-> result.URL,
     source |-> IF result.IsBroken THEN result.SourceURL ELSE Empty,
     error |-> IF result.IsBroken THEN result.Error ELSE NoError]

\* every result is printed, whatever -quiet says
EntryPrintedAlways(result, quiet) == TRUE

\* if result.IsBroken {...} else if !quiet {...}
EntryPrinted(result, quiet) == result.IsBroken \/ ~quiet

RECURSIVE Entries(_, _)
Entries(rs, quiet) ==
    IF rs = <<>> THEN <<>>
    ELSE (IF EntryPrinted(Head(rs), quiet) THEN <<Entry(Head(rs))>> ELSE <<>>)
             \o Entries(Tail(rs), quiet)

\* what outputHuman prints
outputHuman(rs, broken, quiet) ==
    (IF quiet THEN <<>> ELSE <<Header>>)
        \o Entries(rs, quiet)
        \o (IF quiet THEN <<>> ELSE <<Summary(rs, broken)>>)

\* if len(args) == 0 { usage; os.Exit(1) }
MainUsage ==
    /\ mainpc = "args"
    /\ Len(args) = 0
    /\ exitCode' = 1
    /\ mainpc' = "exit"
    /\ UNCHANGED <<args, argIdx, jsonFlag, site, urls, mode, spawnIdx, tasks,
                   visited, visitedMu, results, resultsMu, wg, brokenCount,
                   fetchCount, quietFlag, stdout, call, retval>>

\* one round of the range loop over args: the argument's URLs are appended
\* to urls, or main exits with 1 on a file it cannot read or an argument
\* it does not know
MainArg ==
    /\ mainpc = "args"
    /\ argIdx <= Len(args)
    /\ LET arg == args[argIdx]
       IN  IF ArgFails(arg)
           THEN /\ exitCode' = 1
                /\ mainpc' = "exit"
                /\ urls' = IF arg.file.state = "scanerr"
                             THEN urls \o ArgURLs(arg) ELSE urls
                /\ UNCHANGED argIdx
           ELSE /\ urls' = urls \o ArgURLs(arg)
                /\ argIdx' = argIdx + 1
                /\ mainpc' = IF argIdx = Len(args) THEN "start" ELSE "args"
                /\ UNCHANGED exitCode
    /\ UNCHANGED <<args, jsonFlag, site, mode, spawnIdx, tasks, visited,
                   visitedMu, results, resultsMu, wg, brokenCount, fetchCount,
                   quietFlag, stdout, call, retval>>

\* the mode is chosen by the number of arguments
ModeOfArgCount(argv, us) == IF Len(argv) = 1 THEN "crawl" ELSE "batch"

\* mode detection: if len(urls) == 1 { crawl } else { checkURLs }
ModeOf(argv, us) == IF Len(us) = 1 THEN "crawl" ELSE "batch"

\* if len(urls) == 0 { ...; os.Exit(1) }
MainNoURLs ==
    /\ mainpc = "start"
    /\ Len(urls) = 0
    /\ exitCode' = 1
    /\ mainpc' = "exit"
    /\ UNCHANGED <<args, argIdx, jsonFlag, site, urls, mode, spawnIdx, tasks,
                   visited, visitedMu, results, resultsMu, wg, brokenCount,
                   fetchCount, quietFlag, stdout, call, retval>>

\* single URL: a fresh SafeUrlMap; wg.Add(1); go crawl(startURL, "", startURL, 0)
MainCrawl ==
    /\ mainpc = "start"
    /\ Len(urls) # 0
    /\ ModeOf(args, urls) = "crawl"
    /\ mode' = "crawl"
    /\ visited' = {}
    /\ wg' = WgAdd(wg, 1)
    /\ tasks' = Append(tasks, NewCrawl(urls[1], Empty, urls[1], 0))
    /\ mainpc' = "wait"
    /\ stdout' = PrintBanner(stdout, quietFlag, "crawl", urls)
    /\ UNCHANGED <<args, argIdx, jsonFlag, site, urls, spawnIdx, visitedMu,
                   results, resultsMu, brokenCount, exitCode, fetchCount,
                   quietFlag, call, retval>>

\* several URLs: results = checkURLs(client, urls)
MainBatch ==
    /\ mainpc = "start"
    /\ Len(urls) # 0
    /\ ModeOf(args, urls) = "batch"
    /\ mode' = "batch"
    /\ spawnIdx' = 1
    /\ mainpc' = "spawn"
    /\ stdout' = PrintBanner(stdout, quietFlag, "batch", urls)
    /\ UNCHANGED <<args, argIdx, jsonFlag, site, urls, tasks, visited,
                   visitedMu, results, resultsMu, wg, brokenCount, exitCode,
                   fetchCount, quietFlag, call, retval>>

\* wg.Wait() returns
MainWait ==
    /\ mainpc = "wait"
    /\ WgWaitReturns(wg)
    /\ mainpc' = "count"
    /\ UNCHANGED <<args, argIdx, jsonFlag, site, urls, mode, spawnIdx, tasks,
                   visited, visitedMu, results, resultsMu, wg, brokenCount,
                   exitCode, fetchCount, quietFlag, stdout, call, retval>>

\* every result is counted
CountBrokenAll(rs) == Len(rs)

RECURSIVE CountBroken(_)
CountBroken(rs) ==
    IF rs = <<>> THEN 0
    ELSE (IF Head(rs).IsBroken THEN 1 ELSE 0) + CountBroken(Tail(rs))

\* brokenCount := 0; for _, result := range results { ... brokenCount++ }
MainCount ==
    /\ mainpc = "count"
    /\ brokenCount' = CountBroken(results)
    /\ mainpc' = "output"
    /\ UNCHANGED <<args, argIdx, jsonFlag, site, urls, mode, spawnIdx, tasks,
                   visited, visitedMu, results, resultsMu, wg, exitCode,
                   fetchCount, quietFlag, stdout, call, retval>>

\* outputJSON: the report is encoded to stdout
OutputJSON ==
    /\ mainpc = "output"
    /\ jsonFlag
    /\ mainpc' = "final"
    /\ stdout' = Append(stdout, JSONOutput(results, brokenCount))
    /\ UNCHANGED <<args, argIdx, jsonFlag, site, urls, mode, spawnIdx, tasks,
                   visited, visitedMu, results, resultsMu, wg, brokenCount,
                   exitCode, fetchCount, quietFlag, call, retval>>

\* outputJSON: encoder.Encode returns an error (stdout cannot be written);
\* os.Exit(1)
OutputJSONFails ==
    /\ mainpc = "output"
    /\ jsonFlag
    /\ exitCode' = 1
    /\ mainpc' = "exit"
    /\ UNCHANGED <<args, argIdx, jsonFlag, site, urls, mode, spawnIdx, tasks,
                   visited, visitedMu, results, resultsMu, wg, brokenCount,
                   fetchCount, quietFlag, stdout, call, retval>>

\* outputHuman: the report is printed; no error is looked at
OutputHuman ==
    /\ mainpc = "output"
    /\ ~jsonFlag
    /\ mainpc' = "final"
    /\ stdout' = stdout \o outputHuman(results, brokenCount, quietFlag)
    /\ UNCHANGED <<args, argIdx, jsonFlag, site, urls, mode, spawnIdx, tasks,
                   visited, visitedMu, results, resultsMu, wg, brokenCount,
                   exitCode, fetchCount, quietFlag, call, retval>>

\* the exit code is the number of broken links
ExitCodeIsCount(broken) == broken

\* with -quiet the exit code is 0 whatever was found
ExitCodeZeroWhenQuiet(broken) ==
    IF quietFlag THEN 0 ELSE IF broken > 0 THEN 1 ELSE 0

\* if brokenCount > 0 { os.Exit(1) }; otherwise main returns
ExitCodeOf(broken) == IF broken > 0 THEN 1 ELSE 0

\* the end of main
MainExit ==
    /\ mainpc = "final"
    /\ exitCode' = ExitCodeOf(brokenCount)
    /\ mainpc' = "exit"
    /\ UNCHANGED <<args, argIdx, jsonFlag, site, urls, mode, spawnIdx, tasks,
                   visited, visitedMu, results, resultsMu, wg, brokenCount,
                   fetchCount, quietFlag, stdout, call, retval>>

----------------------------------------------------------------------------
(* The program *)

\* no parser function is called on its own
NoCall == [fn |-> "none"]
NoReturn == [fn |-> "none"]

Init ==
    /\ \E sc \in Scenarios : args = sc[1] /\ site = sc[2]
    /\ jsonFlag \in BOOLEAN
    /\ quietFlag \in BOOLEAN
    /\ stdout = <<>>
    /\ call = NoCall
    /\ retval = NoReturn
    /\ argIdx = 1
    /\ urls = <<>>
    /\ mainpc = "args"
    /\ mode = "none"
    /\ spawnIdx = 0
    /\ tasks = <<>>
    /\ visited = {}
    /\ visitedMu = NoTask
    /\ results = <<>>
    /\ resultsMu = NoTask
    /\ wg = 0
    /\ brokenCount = 0
    /\ exitCode = -1
    /\ fetchCount = [u \in AllURLs \cup {BadURL} |-> 0]

Next ==
    \/ MainUsage
    \/ MainArg
    \/ OutputJSON
    \/ OutputJSONFails
    \/ OutputHuman
    \/ MainNoURLs
    \/ MainCrawl
    \/ MainBatch
    \/ BatchSpawn
    \/ MainWait
    \/ MainCount
    \/ MainExit
    \/ \E t \in TaskIds : VisitLock(t)
    \/ \E t \in TaskIds : VisitCheck(t)
    \/ \E t \in TaskIds : VisitReturn(t)
    \/ \E t \in TaskIds : ResultsLock(t)
    \/ \E t \in TaskIds : ResultsRead(t)
    \/ \E t \in TaskIds : ResultsWrite(t)
    \/ \E t \in TaskIds : CrawlAlreadyVisited(t)
    \/ \E t \in TaskIds : CrawlGet(t)
    \/ \E t \in TaskIds : CrawlResponse(t)
    \/ \E t \in TaskIds : CrawlStop(t)
    \/ \E t \in TaskIds : CrawlExpand(t)
    \/ \E t \in TaskIds : SpawnCrawl(t)
    \/ \E t \in TaskIds : LoopSkip(t)
    \/ \E t \in TaskIds : SpawnProbe(t)
    \/ \E t \in TaskIds : CrawlReturn(t)
    \/ \E t \in TaskIds : ProbeGet(t)
    \/ \E t \in TaskIds : ProbeResponse(t)
    \/ \E t \in TaskIds : ProbeDone(t)
    \/ \E t \in TaskIds : BatchGet(t)
    \/ \E t \in TaskIds : BatchResponse(t)
    \/ \E t \in TaskIds : BatchDone(t)

Spec == Init /\ [][Next]_vars

----------------------------------------------------------------------------
(* The crawl alone: main is given one URL, or a list file with one URL *)

InitCrawl ==
    /\ Init
    /\ site # BatchSite

NextCrawl ==
    \/ MainArg
    \/ MainCrawl
    \/ MainWait
    \/ MainCount
    \/ OutputJSON
    \/ OutputJSONFails
    \/ OutputHuman
    \/ MainExit
    \/ \E t \in TaskIds : VisitLock(t)
    \/ \E t \in TaskIds : VisitCheck(t)
    \/ \E t \in TaskIds : VisitReturn(t)
    \/ \E t \in TaskIds : ResultsLock(t)
    \/ \E t \in TaskIds : ResultsRead(t)
    \/ \E t \in TaskIds : ResultsWrite(t)
    \/ \E t \in TaskIds : CrawlAlreadyVisited(t)
    \/ \E t \in TaskIds : CrawlGet(t)
    \/ \E t \in TaskIds : CrawlResponse(t)
    \/ \E t \in TaskIds : CrawlStop(t)
    \/ \E t \in TaskIds : CrawlExpand(t)
    \/ \E t \in TaskIds : SpawnCrawl(t)
    \/ \E t \in TaskIds : LoopSkip(t)
    \/ \E t \in TaskIds : SpawnProbe(t)
    \/ \E t \in TaskIds : CrawlReturn(t)
    \/ \E t \in TaskIds : ProbeGet(t)
    \/ \E t \in TaskIds : ProbeResponse(t)
    \/ \E t \in TaskIds : ProbeDone(t)

\* every fetch returns and the scheduler does not stop while a goroutine or
\* main can take a step
SpecCrawl == InitCrawl /\ [][NextCrawl]_vars /\ WF_vars(NextCrawl)

----------------------------------------------------------------------------
(* The race test of the Dedup Set: N goroutines call Visit on a fresh map *)

WorkerURLs == {Root, RootSlash}

\* defer wg.Done() of a test goroutine
WorkerDone(t) ==
    /\ tasks[t].pc = "w_ret"
    /\ wg' = WgDone(wg)
    /\ tasks' = [tasks EXCEPT ![t].pc = "done"]
    /\ UNCHANGED <<args, argIdx, jsonFlag, site, urls, mainpc, mode, spawnIdx,
                   visited, visitedMu, results, resultsMu, brokenCount,
                   exitCode, fetchCount, quietFlag, stdout, call, retval>>

\* wg.Wait() of the test returns
TestWait ==
    /\ mainpc = "test_wait"
    /\ WgWaitReturns(wg)
    /\ mainpc' = "test_check"
    /\ UNCHANGED <<args, argIdx, jsonFlag, site, urls, mode, spawnIdx, tasks,
                   visited, visitedMu, results, resultsMu, wg, brokenCount,
                   exitCode, fetchCount, quietFlag, stdout, call, retval>>

InitVisit ==
    /\ \E n \in 1..MaxWorkers : \E us \in [1..n -> WorkerURLs] :
          /\ tasks = [k \in 1..n |-> NewWorker(us[k])]
          /\ wg = n
    /\ site = DownSite
    /\ args = <<>>
    /\ argIdx = 0
    /\ jsonFlag = FALSE
    /\ quietFlag = FALSE
    /\ stdout = <<>>
    /\ call = NoCall
    /\ retval = NoReturn
    /\ urls = <<>>
    /\ mainpc = "test_wait"
    /\ mode = "none"
    /\ spawnIdx = 0
    /\ visited = {}
    /\ visitedMu = NoTask
    /\ results = <<>>
    /\ resultsMu = NoTask
    /\ brokenCount = 0
    /\ exitCode = -1
    /\ fetchCount = [u \in AllURLs \cup {BadURL} |-> 0]

NextVisit ==
    \/ TestWait
    \/ \E t \in TaskIds : VisitLock(t)
    \/ \E t \in TaskIds : VisitCheck(t)
    \/ \E t \in TaskIds : VisitReturn(t)
    \/ \E t \in TaskIds : WorkerDone(t)

SpecVisit == InitVisit /\ [][NextVisit]_vars

----------------------------------------------------------------------------
(* checkURLs called on its own, on any list of URLs (TestCheckURLs) *)

\* results := checkURLs(client, urls): the range loop is entered
CallCheckURLs ==
    /\ mainpc = "call"
    /\ mode' = "batch"
    /\ spawnIdx' = 1
    /\ mainpc' = IF Len(urls) = 0 THEN "wait" ELSE "spawn"
    /\ UNCHANGED <<args, argIdx, jsonFlag, site, urls, tasks, visited,
                   visitedMu, results, resultsMu, wg, brokenCount, exitCode,
                   fetchCount, quietFlag, stdout, call, retval>>

InitBatch ==
    /\ urls \in SeqsUpTo(BatchURLs, MaxBatch)
    /\ site = BatchSite
    /\ args = <<>>
    /\ argIdx = 0
    /\ jsonFlag = FALSE
    /\ quietFlag = FALSE
    /\ stdout = <<>>
    /\ call = NoCall
    /\ retval = NoReturn
    /\ mainpc = "call"
    /\ mode = "none"
    /\ spawnIdx = 0
    /\ tasks = <<>>
    /\ visited = {}
    /\ visitedMu = NoTask
    /\ results = <<>>
    /\ resultsMu = NoTask
    /\ wg = 0
    /\ brokenCount = 0
    /\ exitCode = -1
    /\ fetchCount = [u \in AllURLs \cup {BadURL} |-> 0]

NextBatch ==
    \/ CallCheckURLs
    \/ BatchSpawn
    \/ MainWait
    \/ MainCount
    \/ \E t \in TaskIds : BatchGet(t)
    \/ \E t \in TaskIds : BatchResponse(t)
    \/ \E t \in TaskIds : ResultsLock(t)
    \/ \E t \in TaskIds : ResultsRead(t)
    \/ \E t \in TaskIds : ResultsWrite(t)
    \/ \E t \in TaskIds : BatchDone(t)

SpecBatch == InitBatch /\ [][NextBatch]_vars

----------------------------------------------------------------------------
(* The parser functions called on their own, as the table tests do *)

\* URL strings that differ in one component: scheme, path, port, subdomain,
\* host; a string without a host; a string url.Parse rejects
DomainURLs ==
    {PageA, U("https", "site", "", "/a"), PageB, U("http", "site", "8080", "/a"),
     U("http", "sub.site", "", "/a"), ExtE, U("", "", "", "/a"), BadURL}

MdItems ==
    {MdLink(PageA), MdLink(PageB), MdBare(PageA), MdBare(PageB), MdRel,
     MdLinkText(PageX, PageA), MdRelText(PageX)}

Anchors ==
    {Abs(PageA), Rel("/a"), Rel("/b"), Frag, Mailto, Javascript, EmptyHref,
     NoHref, BadHref}

BaseURLs == {Root, U("https", "other", "8080", "/dir")}

ParserCalls ==
    {[fn |-> "isSameDomain", url1 |-> a, url2 |-> b] :
         a \in DomainURLs, b \in DomainURLs}
    \cup {[fn |-> "extractMarkdownLinks", content |-> c] :
              c \in SeqsUpTo(MdItems, MaxItems)}
    \cup {[fn |-> "extractLinks", body |-> b, baseURL |-> u] :
              b \in SeqsUpTo(Anchors, MaxAnchors), u \in BaseURLs}

Return(fn, value) == [fn |-> fn, value |-> value]

\* got := isSameDomain(url1, url2)
CallIsSameDomain ==
    /\ call.fn = "isSameDomain"
    /\ retval = NoReturn
    /\ retval' = Return(call.fn, isSameDomain(call.url1, call.url2))
    /\ UNCHANGED <<args, argIdx, jsonFlag, site, urls, mainpc, mode, spawnIdx,
                   tasks, visited, visitedMu, results, resultsMu, wg,
                   brokenCount, exitCode, fetchCount, quietFlag, stdout, call>>

\* got := extractMarkdownLinks(content)
CallExtractMarkdownLinks ==
    /\ call.fn = "extractMarkdownLinks"
    /\ retval = NoReturn
    /\ retval' = Return(call.fn, extractMarkdownLinks(call.content))
    /\ UNCHANGED <<args, argIdx, jsonFlag, site, urls, mainpc, mode, spawnIdx,
                   tasks, visited, visitedMu, results, resultsMu, wg,
                   brokenCount, exitCode, fetchCount, quietFlag, stdout, call>>

\* got, err := extractLinks(reader, baseURL)
CallExtractLinks ==
    /\ call.fn = "extractLinks"
    /\ retval = NoReturn
    /\ retval' = Return(call.fn, extractLinks(call.body, call.baseURL))
    /\ UNCHANGED <<args, argIdx, jsonFlag, site, urls, mainpc, mode, spawnIdx,
                   tasks, visited, visitedMu, results, resultsMu, wg,
                   brokenCount, exitCode, fetchCount, quietFlag, stdout, call>>

InitParser ==
    /\ call \in ParserCalls
    /\ retval = NoReturn
    /\ site = DownSite
    /\ args = <<>>
    /\ argIdx = 0
    /\ jsonFlag = FALSE
    /\ quietFlag = FALSE
    /\ stdout = <<>>
    /\ urls = <<>>
    /\ mainpc = "parser"
    /\ mode = "none"
    /\ spawnIdx = 0
    /\ tasks = <<>>
    /\ visited = {}
    /\ visitedMu = NoTask
    /\ results = <<>>
    /\ resultsMu = NoTask
    /\ wg = 0
    /\ brokenCount = 0
    /\ exitCode = -1
    /\ fetchCount = [u \in AllURLs \cup {BadURL} |-> 0]

NextParser ==
    \/ CallIsSameDomain
    \/ CallExtractMarkdownLinks
    \/ CallExtractLinks

SpecParser == InitParser /\ [][NextParser]_vars

----------------------------------------------------------------------------
(* Properties *)

Range(q) == {q[k] : k \in DOMAIN q}

ResultsFor(u) == {k \in DOMAIN results : results[k].URL = u}

WaitReturned == mainpc \in {"count", "output", "final", "exit"}

AllDone == \A t \in TaskIds : tasks[t].pc = "done"

RECURSIVE SumOver(_, _)
SumOver(f, S) ==
    IF S = {} THEN 0
    ELSE LET x == CHOOSE y \in S : TRUE IN f[x] + SumOver(f, S \ {x})

TotalFetches == SumOver(fetchCount, DOMAIN fetchCount)

\* a worker whose call of Visit has returned
Returned(t) == tasks[t].kind = "worker" /\ tasks[t].pc \in {"w_ret", "done"}
WorkersOf(u) == {t \in TaskIds : tasks[t].kind = "worker" /\ tasks[t].targetURL = u}
SawUnclaimed(u) == {t \in WorkersOf(u) : Returned(t) /\ ~tasks[t].ret}
SawClaimed(u) == {t \in WorkersOf(u) : Returned(t) /\ tasks[t].ret}

\* C1: of the concurrent calls of Visit with one URL string on a fresh map,
\* never more than one has returned false, and once all N have returned
\* exactly one returned false and N-1 returned true.
C1_OneClaimantPerURL ==
    \A u \in WorkerURLs :
        /\ Cardinality(SawUnclaimed(u)) <= 1
        /\ (WorkersOf(u) # {} /\ \A t \in WorkersOf(u) : Returned(t))
              => /\ Cardinality(SawUnclaimed(u)) = 1
                 /\ Cardinality(SawClaimed(u)) = Cardinality(WorkersOf(u)) - 1

\* all MaxWorkers goroutines raced for the same string and have returned
C1_Witness ==
    /\ mainpc = "test_check"
    /\ Cardinality(WorkersOf(Root)) = MaxWorkers
    /\ Cardinality(SawClaimed(Root)) = MaxWorkers - 1

\* C2: in a crawl no URL string is requested more than once and none has
\* more than one LinkResult.
C2_FetchedAtMostOnce ==
    mode = "crawl" =>
        \A u \in DOMAIN fetchCount :
            /\ fetchCount[u] <= 1
            /\ Cardinality(ResultsFor(u)) <= 1

\* the crawl of the pages that link to each other is over: /a, linked twice
\* from the root, and the root, linked back from /a, were each fetched once
C2_Witness ==
    /\ site = MutualSite
    /\ mainpc = "exit"
    /\ Cardinality({t \in TaskIds : tasks[t].targetURL = PageA}) >= 2
    /\ Cardinality({t \in TaskIds : tasks[t].targetURL = Root}) >= 2
    /\ fetchCount[PageA] = 1
    /\ Cardinality(ResultsFor(PageA)) = 1
    /\ fetchCount[Root] = 1

\* C3: in crawl mode, once wg.Wait() has returned every goroutine started
\* has finished, and the results slice does not change any more.
C3_WaitIsQuiescence ==
    /\ [](mode = "crawl" /\ WaitReturned => AllDone /\ wg = 0)
    /\ [][mode = "crawl" /\ WaitReturned => results' = results]_vars

\* the wait has returned on a crawl that started crawl and probe goroutines
C3_Witness ==
    /\ mode = "crawl"
    /\ mainpc = "count"
    /\ \E t \in TaskIds : tasks[t].kind = "probe"
    /\ \E t \in TaskIds : tasks[t].kind = "crawl" /\ tasks[t].depth = 2
    /\ Len(results) >= 4

\* C4: no goroutine of depth greater than maxDepth = 2 exists, so none
\* fetches; on the chain site only the pages of depth 0, 1 and 2 are
\* requested, at most 3 requests in all.
C4_DepthBound ==
    /\ maxDepth = 2
    /\ \A t \in TaskIds : tasks[t].depth <= 2
    /\ (mode = "crawl" /\ site = ChainSite) =>
          /\ \A n \in 3..ChainLen :
                fetchCount[Chain(n)] = 0 /\ ResultsFor(Chain(n)) = {}
          /\ TotalFetches <= 3

\* the chain has been crawled to its end: the pages of depth 0, 1, 2 fetched
C4_Witness ==
    /\ site = ChainSite
    /\ mainpc = "exit"
    /\ fetchCount[Chain(2)] = 1
    /\ TotalFetches = 3
    /\ \E t \in TaskIds : tasks[t].targetURL = Chain(2) /\ tasks[t].depth = 2

IsExtSite == mode = "crawl" /\ site \in {ExtSite(200, 200), ExtSite(399, 400)}

\* C5: the cross-domain page linked from the root is requested at most once
\* and, once the crawl is over, exactly once, with one LinkResult whose
\* SourceURL is the root; the links of its body are neither claimed nor
\* requested (the root, which it links back to, is not requested again),
\* whatever its status; and only a crawl of a page of the root's domain
\* ever walks over links.
C5_ProbeNeverExpands ==
    /\ \A t \in TaskIds :
          (tasks[t].links # <<>> \/ tasks[t].pc \in {"loop", "l_checked"})
              => /\ tasks[t].kind = "crawl"
                 /\ isSameDomain(tasks[t].targetURL, tasks[t].baseDomain)
    /\ IsExtSite =>
          /\ fetchCount[ExtE] <= 1
          /\ fetchCount[PageX] = 0 /\ fetchCount[ExtY] = 0
          /\ PageX \notin visited /\ ExtY \notin visited
          /\ fetchCount[Root] <= 1
          /\ \A k \in ResultsFor(ExtE) : results[k].SourceURL = Root
          /\ WaitReturned =>
                /\ fetchCount[ExtE] = 1
                /\ Cardinality(ResultsFor(ExtE)) = 1
                /\ Len(results) = 3

\* the crawl is over and the cross-domain page, whose body links to /x, is
\* recorded with status 200
C5_Witness ==
    /\ site = ExtSite(200, 200)
    /\ mainpc = "exit"
    /\ \E k \in ResultsFor(ExtE) :
          results[k].Status = 200 /\ results[k].SourceURL = Root
    /\ \E t \in TaskIds : tasks[t].kind = "probe" /\ tasks[t].resp.body # <<>>

\* C6: a crawl goroutine whose fetch returned a status >= 400 records that
\* status with IsBroken and never walks over the links of the body; on the
\* site where /b answers 404 with a body linking to /x, /x is neither
\* claimed nor requested.
C6_BrokenPageNotExpanded ==
    /\ \A t \in TaskIds :
          (tasks[t].kind = "crawl" /\ tasks[t].resp.status >= 400)
              => /\ tasks[t].links = <<>>
                 /\ tasks[t].pc \notin {"loop", "l_checked", "v_check", "v_ret"}
                 /\ tasks[t].result.IsBroken
                 /\ tasks[t].result.Status = tasks[t].resp.status
    /\ (mode = "crawl" /\ site = BrokenSite(404)) =>
          /\ PageX \notin visited
          /\ fetchCount[PageX] = 0
          /\ \A k \in ResultsFor(PageB) :
                results[k].IsBroken /\ results[k].Status = 404
          /\ WaitReturned => Cardinality(ResultsFor(PageB)) = 1

\* the crawl is over; /b, at depth 1 with a body that has a link, is
\* recorded as broken
C6_Witness ==
    /\ site = BrokenSite(404)
    /\ mainpc = "exit"
    /\ \E k \in ResultsFor(PageB) : results[k].IsBroken
    /\ \E t \in TaskIds :
          /\ tasks[t].targetURL = PageB /\ tasks[t].depth < maxDepth
          /\ tasks[t].resp.body # <<>> /\ tasks[t].resp.status = 404

BrokenRule(r) == r.IsBroken = (r.Error # NoError \/ r.Status >= 400)

\* C7: every LinkResult of the results slice, whichever goroutine built it,
\* has IsBroken = (Error present or Status >= 400).
C7_IsBrokenRule == \A k \in DOMAIN results : BrokenRule(results[k])

\* a finished crawl holds the error results of a crawl goroutine and of a
\* probe, a status-broken result and a sound one
C7_Witness ==
    /\ site = ErrorSite
    /\ mainpc = "exit"
    /\ \E k \in ResultsFor(PageA) : results[k].Error # NoError
    /\ \E k \in ResultsFor(ExtE) : results[k].Error # NoError
    /\ \E k \in ResultsFor(PageC) :
          results[k].Status >= 400 /\ results[k].IsBroken
    /\ \E k \in DOMAIN results : ~results[k].IsBroken

\* C8: a fetch that fails at transport level is recorded with that Error,
\* Status 0 and IsBroken; so a result with an Error has Status 0.
C8_TransportError ==
    \A k \in DOMAIN results :
        LET r == results[k]
            a == Get(site, r.URL)
        IN  /\ a.err # NoError =>
                  r.Error = a.err /\ r.Status = 0 /\ r.IsBroken
            /\ r.Error # NoError => r.Status = 0

\* a batch run is over with a refused connection among its results
C8_Witness ==
    /\ mode = "batch"
    /\ mainpc = "exit"
    /\ \E k \in DOMAIN results :
          /\ results[k].URL = ExtE
          /\ results[k].Error = "connection refused"
          /\ results[k].IsBroken

\* C9: a fetch that completes is recorded without Error and with the
\* status returned; IsBroken is true exactly when the status is >= 400.
C9_HttpStatus ==
    \A k \in DOMAIN results :
        LET r == results[k]
            a == Get(site, r.URL)
        IN  a.err = NoError =>
                /\ r.Error = NoError
                /\ r.Status = a.status
                /\ r.IsBroken = (a.status >= 400)

\* a finished crawl recorded a page with status 399 as sound and a probed
\* page with status 400 as broken
C9_Witness ==
    /\ site = ExtSite(399, 400)
    /\ mainpc = "exit"
    /\ \E k \in ResultsFor(PageA) :
          results[k].Status = 399 /\ ~results[k].IsBroken
    /\ \E k \in ResultsFor(ExtE) :
          results[k].Status = 400 /\ results[k].IsBroken
                /\ results[k].Error = NoError

Failed(a) == a.err # NoError \/ a.status >= 400

\* some fetch of the run has failed
SomeFailure == \E t \in TaskIds : Failed(tasks[t].resp)

\* a crawl that found its target claimed and returned without a request
NoOp(t) ==
    /\ tasks[t].kind = "crawl"
    /\ tasks[t].cont = "c_checked"
    /\ tasks[t].ret
    /\ tasks[t].resp = NoAnswer

\* C10: after a fetch has failed the run is never stuck before its exit;
\* and once the wait has returned every goroutine has finished, every
\* goroutine that made a request (the failed ones too) has its LinkResult
\* in the results slice, and every link a page walked over has a
\* LinkResult.
C10_FailureStaysLocal ==
    SomeFailure =>
        /\ (mainpc # "exit" => ENABLED Next)
        /\ WaitReturned =>
              /\ AllDone
              /\ \A t \in TaskIds :
                    tasks[t].result # NoResult =>
                        tasks[t].result \in Range(results)
              /\ \A t \in TaskIds : \A k \in DOMAIN tasks[t].links :
                    ResultsFor(tasks[t].links[k]) # {}
              /\ \A t \in TaskIds : NoOp(t) \/ tasks[t].result # NoResult

\* a crawl is over in which /a and the probe failed at transport level
\* while their sibling /b and /b's child /c were recorded
C10_Witness ==
    /\ site = ErrorSite
    /\ WaitReturned
    /\ exitCode = 1
    /\ \E k \in ResultsFor(PageA) : results[k].Error # NoError
    /\ \E k \in ResultsFor(ExtE) : results[k].Error # NoError
    /\ ResultsFor(PageB) # {} /\ ResultsFor(PageC) # {}
    /\ Len(results) = 5

Occurrences(q, x) == Cardinality({k \in DOMAIN q : q[k] = x})

\* C11: when checkURLs returns, all its goroutines have finished and the
\* slice holds one LinkResult per element of the input: a URL given k times
\* was requested k times and has k results, every SourceURL is empty, an
\* empty input gives an empty slice, and the broken results are as many as
\* the inputs whose fetch failed or answered with a status >= 400.
C11_OneResultPerInput ==
    (mode = "batch" /\ WaitReturned) =>
        /\ AllDone
        /\ Len(results) = Len(urls)
        /\ \A u \in DOMAIN fetchCount :
              /\ Cardinality(ResultsFor(u)) = Occurrences(urls, u)
              /\ fetchCount[u] = Occurrences(urls, u)
        /\ \A k \in DOMAIN results : results[k].SourceURL = Empty
        /\ (urls = <<>> => results = <<>>)
        /\ Cardinality({k \in DOMAIN results : results[k].IsBroken})
              = Cardinality({k \in DOMAIN urls : Failed(Get(site, urls[k]))})
        /\ (mainpc = "output" =>
              brokenCount
                = Cardinality({k \in DOMAIN urls : Failed(Get(site, urls[k]))}))

\* checkURLs has returned for three URLs, one of them given twice, two of
\* them broken
C11_Witness ==
    /\ mainpc = "output"
    /\ Len(urls) = 3
    /\ \E u \in BatchURLs : Occurrences(urls, u) = 2
    /\ Len(results) = 3
    /\ brokenCount = 2

IsScenarioSite == mode = "crawl" /\ site = BrokenSite(404)

\* C12: on the site whose root links to /a (200, no links) and /b (404) the
\* crawl ends with exactly the three results root (200, sound), /a (200,
\* sound) and /b (404, broken), in some order; the broken count is 1 and the
\* exit code is 1.
C12_ScenarioThreeResults ==
    IsScenarioSite =>
        /\ WaitReturned =>
              /\ Len(results) = 3
              /\ Range(results) =
                    {LinkResult(Root, 200, NoError, FALSE, Empty),
                     LinkResult(PageA, 200, NoError, FALSE, Root),
                     LinkResult(PageB, 404, NoError, TRUE, Root)}
        /\ mainpc \in {"output", "final"} => brokenCount = 1
        /\ mainpc = "exit" => brokenCount = 1 /\ exitCode = 1

\* the run on that site has ended with exit code 1, /b having been recorded
\* before /a
C12_Witness ==
    /\ IsScenarioSite
    /\ mainpc = "exit"
    /\ ~jsonFlag
    /\ exitCode = 1
    /\ Len(results) = 3
    /\ results[2].URL = PageB
    /\ results[3].URL = PageA

RECURSIVE Flatten(_)
Flatten(argv) ==
    IF argv = <<>> THEN <<>> ELSE ArgURLs(Head(argv)) \o Flatten(Tail(argv))

\* C13: once a mode is chosen, urls is the concatenation of the URLs of all
\* arguments; the crawl runs exactly when that list has one element, on a
\* fresh Dedup Set with the root goroutine crawl(url, "", url, 0), and
\* checkURLs runs exactly when it has more than one; goroutines of the two
\* modes never exist together, and none exists before a mode is chosen.
C13_ModeByResolvedCount ==
    /\ mode = "none" => tasks = <<>>
    /\ mode # "none" =>
          /\ urls = Flatten(args)
          /\ (mode = "crawl") = (Len(urls) = 1)
          /\ (mode = "batch") = (Len(urls) > 1)
    /\ mode = "crawl" =>
          /\ Len(tasks) >= 1
          /\ tasks[1].kind = "crawl"
          /\ tasks[1].targetURL = urls[1]
          /\ tasks[1].sourceURL = Empty
          /\ tasks[1].baseDomain = urls[1]
          /\ tasks[1].depth = 0
          /\ tasks[1].pc = "c_visit" => visited = {}
          /\ \A t \in TaskIds : tasks[t].kind \in {"crawl", "probe"}
    /\ mode = "batch" =>
          /\ \A t \in TaskIds : tasks[t].kind = "batch"
          /\ visited = {}

\* a single argument, a list file with two URLs, was run by checkURLs
C13_Witness ==
    /\ mode = "batch"
    /\ Len(args) = 1
    /\ Len(urls) = 2
    /\ Len(tasks) = 2
    /\ mainpc = "exit"

\* an argument that names a file that cannot be read, or is neither a file
\* name nor an http(s) URL
Unresolvable(arg) ==
    \/ arg.suffix = ".md" /\ arg.file.state = "missing"
    \/ arg.suffix = ".txt" /\ arg.file.state \in {"missing", "scanerr"}
    \/ arg.suffix \notin {".md", ".txt"} /\ ~arg.http

\* the input cannot be resolved to at least one URL
InputFailure ==
    \/ args = <<>>
    \/ \E k \in DOMAIN args : Unresolvable(args[k])
    \/ \A k \in DOMAIN args : ArgURLs(args[k]) = <<>>

NumBroken == Cardinality({k \in DOMAIN results : results[k].IsBroken})

\* C14 as stated: at the exit the broken count is the number of results
\* with IsBroken, and the exit code is 1 on an input-resolution failure,
\* otherwise 0 when the count is zero and 1 when it is greater.
C14_Original ==
    mainpc = "exit" =>
        IF InputFailure THEN exitCode = 1
        ELSE /\ brokenCount = NumBroken
             /\ exitCode = IF NumBroken = 0 THEN 0 ELSE 1

\* C14, amended: at the exit the exit code is 1 on an input-resolution
\* failure; otherwise the broken count is the number of results with
\* IsBroken and the exit code is 0 or 1, 1 whenever the count is greater
\* than zero and, without -json, 0 whenever it is zero; main sets the code
\* from the count at its end, and exits with 1 from the report only when
\* encoding the JSON report fails.
C14_ExitCode ==
    /\ [](mainpc = "exit" =>
            IF InputFailure THEN exitCode = 1
            ELSE /\ brokenCount = NumBroken
                 /\ exitCode \in {0, 1}
                 /\ NumBroken > 0 => exitCode = 1
                 /\ ~jsonFlag => exitCode = IF NumBroken = 0 THEN 0 ELSE 1)
    /\ [][(mainpc = "final" /\ mainpc' = "exit")
            => exitCode' = IF NumBroken = 0 THEN 0 ELSE 1]_vars
    /\ [][(mainpc = "output" /\ mainpc' = "exit")
            => jsonFlag /\ exitCode' = 1]_vars

\* a run with -json has ended with exit code 0 on three sound results
C14_Witness ==
    /\ mainpc = "exit"
    /\ jsonFlag
    /\ exitCode = 0
    /\ brokenCount = 0
    /\ Len(results) >= 3

C16_CrawlTerminates ==
    (mode = "crawl") ~> (WaitReturned /\ AllDone /\ wg = 0)

\* the crawl of two pages that link to each other has ended
C16_Witness ==
    /\ mode = "crawl"
    /\ site = MutualSite
    /\ mainpc = "exit"
    /\ AllDone
    /\ Len(results) >= 2

\* the positions at which a goroutine is inside http.Get
FetchPcs == {"c_get", "p_get", "b_get"}

\* C17: a goroutine inside http.Get holds neither mutex; the holder of the
\* Dedup Set mutex is inside Visit and the holder of the results mutex is
\* inside its append, and each can take its next step at once, so a
\* goroutine waiting for a mutex never waits for a fetch.
C17_NoLockAcrossFetch ==
    /\ \A t \in TaskIds :
          tasks[t].pc \in FetchPcs => visitedMu # t /\ resultsMu # t
    /\ visitedMu # NoTask =>
          /\ visitedMu \in TaskIds
          /\ tasks[visitedMu].pc \in {"v_check", "v_ret"}
          /\ ENABLED (VisitCheck(visitedMu) \/ VisitReturn(visitedMu))
    /\ resultsMu # NoTask =>
          /\ resultsMu \in TaskIds
          /\ tasks[resultsMu].pc \in {"a_read", "a_write"}
          /\ ENABLED (ResultsRead(resultsMu) \/ ResultsWrite(resultsMu))

\* one goroutine is inside http.Get while a second one holds the Dedup Set
\* mutex and a third one holds the results mutex
C17_Witness ==
    /\ \E t \in TaskIds : tasks[t].pc \in FetchPcs
    /\ visitedMu # NoTask
    /\ resultsMu # NoTask
    /\ visitedMu # resultsMu

\* the result at position j names a source page that has no result before it
BeforeItsSource(j) ==
    /\ results[j].SourceURL # Empty
    /\ \A i \in 1..(j - 1) : results[i].URL # results[j].SourceURL

Recorded ==
    {t \in TaskIds : /\ tasks[t].result # NoResult
                     /\ tasks[t].pc \notin {"a_lock", "a_read", "a_write"}}

\* C19: every step leaves the entries of results as they are and at most
\* adds entries after them; in every state the length of results is the
\* number of goroutines that have completed their append, and the result of
\* each of them is in the slice.
C19_AppendOnly ==
    /\ [][/\ Len(results') >= Len(results)
          /\ \A k \in DOMAIN results : results'[k] = results[k]]_vars
    /\ [](/\ Len(results) = Cardinality(Recorded)
          /\ \A t \in Recorded : tasks[t].result \in Range(results))

\* one goroutine is in the middle of its append, holding the mutex, while
\* two others wait to append and one result is already in the slice
C19_Witness ==
    /\ resultsMu # NoTask
    /\ tasks[resultsMu].pc = "a_write"
    /\ Cardinality({t \in TaskIds : tasks[t].pc = "a_lock"}) >= 2
    /\ Len(results) >= 1

\* C20: the Dedup Set only grows; a call of Visit returns whether its string
\* was in the set when it held the mutex, and the string is in the set when
\* it returns, so the first call for a string returns false and every later
\* one true; the set is exactly the set of strings of the calls that have
\* returned.
C20_VisitMonotone ==
    /\ [][visited \subseteq visited']_vars
    /\ [][\A t \in TaskIds :
            (tasks[t].pc = "v_ret" /\ tasks'[t].pc # "v_ret")
                => /\ tasks'[t].ret = (tasks[t].vurl \in visited)
                   /\ visited' = visited \cup {tasks[t].vurl}]_vars
    /\ [](visited = {tasks[t].targetURL : t \in {w \in TaskIds : Returned(w)}})

\* three calls have returned: two strings are in the set, the second call
\* for one of them returned true
C20_Witness ==
    /\ mainpc = "test_check"
    /\ Len(tasks) = 3
    /\ visited = {Root, RootSlash}
    /\ SawClaimed(Root) \cup SawClaimed(RootSlash) # {}

\* a crawl goroutine that claimed its target and went on to request it
Claimant(t) ==
    /\ tasks[t].kind = "crawl"
    /\ tasks[t].pc \notin {"c_visit", "v_check", "v_ret"}
    /\ ~NoOp(t)

\* C21: a call of Visit leaves every entry but the one of its own string as
\* it was; a crawl finds its target claimed only when another crawl claimed
\* that very string; and on the site whose two pages differ in the trailing
\* slash only, both strings have been requested and have a result at the
\* exit.
C21_ExactString ==
    /\ [][\A t \in TaskIds :
            (tasks[t].pc = "v_ret" /\ tasks'[t].pc # "v_ret")
                => visited' \ {tasks[t].vurl} = visited \ {tasks[t].vurl}]_vars
    /\ [](\A t \in TaskIds :
            NoOp(t) => \E w \in TaskIds \ {t} :
                          /\ Claimant(w)
                          /\ tasks[w].targetURL = tasks[t].targetURL)
    /\ []((site = SlashSite /\ mainpc = "exit") =>
            /\ fetchCount[Root] = 1 /\ fetchCount[RootSlash] = 1
            /\ ResultsFor(Root) # {} /\ ResultsFor(RootSlash) # {})

\* the crawl of the two pages that differ in the trailing slash has ended
\* with both requested, the third goroutine having found the root claimed
C21_Witness ==
    /\ site = SlashSite
    /\ mainpc = "exit"
    /\ fetchCount[Root] = 1
    /\ fetchCount[RootSlash] = 1
    /\ \E t \in TaskIds : NoOp(t) /\ tasks[t].targetURL = Root

\* C22: a crawl whose Visit returns true has changed nothing in the Dedup
\* Set; from then on its only step is the return with wg.Done, which
\* leaves the Dedup Set, the results, the requests made and the set of
\* goroutines as they are; it never has a response, a result or links and
\* never holds a mutex.
C22_ClaimedIsNoOp ==
    /\ [][\A t \in TaskIds :
            (/\ tasks[t].pc = "v_ret" /\ tasks[t].cont = "c_checked"
             /\ tasks[t].seen /\ tasks'[t].pc # "v_ret")
                => /\ visited' = visited
                   /\ tasks'[t].pc = "c_checked" /\ tasks'[t].ret]_vars
    /\ [][\A t \in TaskIds :
            (NoOp(t) /\ tasks'[t] # tasks[t])
                => /\ tasks[t].pc = "c_checked"
                   /\ tasks' = [tasks EXCEPT ![t].pc = "done"]
                   /\ wg' = wg - 1
                   /\ UNCHANGED <<visited, results, fetchCount>>]_vars
    /\ [](\A t \in TaskIds :
            NoOp(t) => /\ tasks[t].pc \in {"c_checked", "done"}
                       /\ tasks[t].result = NoResult
                       /\ tasks[t].links = <<>>
                       /\ visitedMu # t /\ resultsMu # t)

\* the crawl has ended with two goroutines that did nothing: one for /a,
\* linked twice on the root, and one for the root, linked back from /a
C22_Witness ==
    /\ site = MutualSite
    /\ mainpc = "exit"
    /\ \E t \in TaskIds :
          /\ NoOp(t) /\ tasks[t].pc = "done"
          /\ tasks[t].targetURL = PageA /\ tasks[t].sourceURL = Root
    /\ \E t \in TaskIds :
          /\ NoOp(t) /\ tasks[t].pc = "done"
          /\ tasks[t].targetURL = Root /\ tasks[t].sourceURL = PageA

IsCall(fn) == call.fn = fn /\ retval # NoReturn

\* C23: isSameDomain returns true exactly when neither string fails to
\* parse and host and port are the same on both sides; so it is false when
\* the ports or the hosts differ or when either string does not parse, and
\* scheme and path play no part.
C23_SameDomain ==
    IsCall("isSameDomain") =>
        LET a == call.url1
            b == call.url2
        IN  /\ retval.value =
                  (/\ ~ParseErr(a) /\ ~ParseErr(b)
                   /\ a.host = b.host /\ a.port = b.port)
            /\ (a.port # b.port \/ a.host # b.host) => ~retval.value
            /\ (ParseErr(a) \/ ParseErr(b)) => ~retval.value
            /\ (~ParseErr(a) /\ ~ParseErr(b)
                    /\ [a EXCEPT !.scheme = "", !.path = ""]
                         = [b EXCEPT !.scheme = "", !.path = ""])
                  => retval.value

\* two strings of one host that differ in scheme and path were compared and
\* found to be of the same domain
C23_Witness ==
    /\ IsCall("isSameDomain")
    /\ call.url1.scheme # call.url2.scheme
    /\ call.url1.path # call.url2.path
    /\ call.url1.host = "site"
    /\ retval.value

\* the pieces of a Markdown text that carry a URL to check: a link with an
\* http(s) target, or a URL outside every link
Carries(c, i, u) == c[i].k \in {"link", "bare"} /\ c[i].u = u

FirstAt(c, u) ==
    CHOOSE i \in DOMAIN c :
        Carries(c, i, u) /\ \A j \in 1..(i - 1) : ~Carries(c, j, u)

\* C24: extractMarkdownLinks returns exactly the targets of the http(s)
\* links and the URLs standing outside links, each once, in the order of
\* their first occurrence; a relative target and a URL inside the brackets
\* or parentheses of a link add nothing; [A](u) followed by a bare u yields
\* u alone.
C24_MarkdownLinks ==
    IsCall("extractMarkdownLinks") =>
        LET c == call.content
            out == retval.value
        IN  /\ Range(out) = {c[i].u : i \in {j \in DOMAIN c :
                                                c[j].k \in {"link", "bare"}}}
            /\ \A i, j \in DOMAIN out : i # j => out[i] # out[j]
            /\ \A i, j \in DOMAIN out :
                  i < j => FirstAt(c, out[i]) < FirstAt(c, out[j])
            /\ c = <<MdLink(PageA), MdBare(PageA)>> => out = <<PageA>>

\* a text with a URL as the text of a relative link, then a link to /b and
\* a bare /a: /b and /a are returned, in this order
C24_Witness ==
    /\ IsCall("extractMarkdownLinks")
    /\ call.content = <<MdRelText(PageX), MdLink(PageB), MdBare(PageA)>>
    /\ retval.value = <<PageB, PageA>>

\* the anchors whose href is none of the values the claim lists as skipped
Listed(b) ==
    SelectSeq(b, LAMBDA x : x.k \notin {"nohref", "", "#", "javascript:",
                                       "mailto:"})

\* the anchors whose href is not skipped and parses as a URL
Kept(b) == SelectSeq(Listed(b), LAMBDA x : x.u.host # "[")

\* an href against the base: an absolute one stands, a path takes scheme,
\* host and port of the base
Resolved(x, base) ==
    IF x.k = "abs" THEN x.u
    ELSE [scheme |-> base.scheme, host |-> base.host, port |-> base.port,
          path |-> x.u.path]

\* C25 as stated: extractLinks returns one URL for every anchor that has an
\* href other than "", "#...", "javascript:..." and "mailto:...", in
\* document order.
C25_Original ==
    IsCall("extractLinks") => Len(retval.value) = Len(Listed(call.body))

\* C25, amended: extractLinks returns, in document order and without
\* removing duplicates, the href resolved against the base URL of every
\* anchor that has an href other than "", "#...", "javascript:..." and
\* "mailto:..." and whose href parses as a URL; an href that does not parse
\* is skipped like the others.
C25_ExtractLinks ==
    IsCall("extractLinks") =>
        LET kept == Kept(call.body)
            out == retval.value
        IN  /\ Len(out) = Len(kept)
            /\ \A n \in DOMAIN out : out[n] = Resolved(kept[n], call.baseURL)
            /\ call.body = <<Rel("/a"), Rel("/a")>> => Len(out) = 2

\* a document with an href that does not parse followed by the same path
\* twice: the path is returned twice, resolved against the base
C25_Witness ==
    /\ IsCall("extractLinks")
    /\ call.body = <<BadHref, Rel("/a"), Rel("/a")>>
    /\ call.baseURL = Root
    /\ retval.value = <<PageA, PageA>>

\* what the run has fetched and collected
RunState ==
    <<urls, mode, spawnIdx, tasks, visited, visitedMu, results, resultsMu,
      wg, fetchCount>>

\* the flags are never written; standard output is only added to, by the
\* line main prints at the start and by the report, and the report changes
\* nothing of the run; from the return of the wait on, what was fetched and
\* collected stays as it is and the count is set once
FlagsFrame ==
    /\ [][jsonFlag' = jsonFlag /\ quietFlag' = quietFlag]_vars
    /\ [][stdout' # stdout =>
            \/ mainpc = "start" /\ ~quietFlag
                  /\ stdout = <<>> /\ Len(stdout') = 1
            \/ mainpc = "output" /\ mainpc' = "final"
                  /\ UNCHANGED <<RunState, brokenCount, exitCode>>]_vars
    /\ [][WaitReturned =>
            /\ UNCHANGED RunState
            /\ mainpc # "count" => brokenCount' = brokenCount]_vars
    /\ []((mode # "none" /\ mainpc \in {"output", "final", "exit"})
            => brokenCount = NumBroken)

\* C26 as stated: the flags change nothing but the report, and at the end
\* of a run that fetched, the exit code is 1 exactly when a result is
\* broken, whatever the flags.
C26_Original ==
    /\ FlagsFrame
    /\ []((mainpc = "exit" /\ mode # "none") => (exitCode = 1) = (NumBroken > 0))

\* C26, amended: the flags change nothing but the report; at the end of a
\* run that fetched, the exit code is 1 exactly when a result is broken,
\* except that with -json it is 1 as well when the report cannot be
\* encoded.
C26_FlagsOnlyReport ==
    /\ FlagsFrame
    /\ [][(mainpc = "final" /\ mainpc' = "exit")
            => (exitCode' = 1) = (NumBroken > 0)]_vars
    /\ []((mainpc = "exit" /\ mode # "none") =>
            /\ exitCode \in {0, 1}
            /\ NumBroken > 0 => exitCode = 1
            /\ (exitCode = 1 /\ NumBroken = 0) => jsonFlag)

\* a run with -quiet and without -json has ended: nothing but the entries of
\* the broken results was printed and the exit code is 1
C26_Witness ==
    /\ mainpc = "exit"
    /\ quietFlag /\ ~jsonFlag
    /\ Len(results) >= 3
    /\ NumBroken >= 1
    /\ Len(stdout) = NumBroken
    /\ exitCode = 1

\* the JSON documents on standard output
JSONDocs == {k \in DOMAIN stdout : stdout[k].k = "json"}

\* C27: the JSON report has total = number of results, broken = the number
\* of broken results, success = total - broken, and one JSON result per
\* LinkResult in the same order, with url, status and broken of that
\* result and an error field exactly when the result has an Error; when
\* outputJSON has returned, one report is on standard output, at its end.
C27_JSONReport ==
    /\ \A k \in JSONDocs :
          LET doc == stdout[k]
          IN  /\ doc.summary.total = Len(results)
              /\ doc.summary.broken = NumBroken
              /\ doc.summary.broken = brokenCount
              /\ doc.summary.success = doc.summary.total - doc.summary.broken
              /\ Len(doc.results) = Len(results)
              /\ \A i \in DOMAIN results :
                    /\ doc.results[i].url = results[i].URL
                    /\ doc.results[i].status = results[i].Status
                    /\ doc.results[i].broken = results[i].IsBroken
                    /\ ("error" \in DOMAIN doc.results[i])
                          = (results[i].Error # NoError)
                    /\ "error" \in DOMAIN doc.results[i]
                          => doc.results[i].error = results[i].Error
    /\ (jsonFlag /\ mainpc = "final") => JSONDocs = {Len(stdout)}
    /\ ~jsonFlag => JSONDocs = {}

\* a report with three results or more is out, one of them with an error
\* field and one without
C27_Witness ==
    /\ mainpc = "final"
    /\ \E k \in JSONDocs :
          /\ stdout[k].summary.total >= 3
          /\ stdout[k].summary.success >= 1
          /\ \E i \in DOMAIN results : "error" \in DOMAIN stdout[k].results[i]
          /\ \E i \in DOMAIN results :
                "error" \notin DOMAIN stdout[k].results[i]

\* the entries among what was printed, and the broken results
PrintedEntries == SelectSeq(stdout, LAMBDA x : x.k = "entry")
BrokenResults == SelectSeq(results, LAMBDA r : r.IsBroken)

\* C28: when outputHuman has returned with -quiet, standard output holds
\* one entry for each broken result, in order, marked as an error or with
\* its status, and nothing else; without -quiet it holds the start line,
\* the header, one entry for each result, in order, and the summary with
\* the number of results and of broken ones.
C28_HumanReport ==
    (~jsonFlag /\ mainpc = "final") =>
        IF quietFlag
        THEN /\ \A k \in DOMAIN stdout : stdout[k].k = "entry"
             /\ Len(PrintedEntries) = Len(BrokenResults)
             /\ \A n \in DOMAIN PrintedEntries :
                   /\ PrintedEntries[n].url = BrokenResults[n].URL
                   /\ ~PrintedEntries[n].ok
                   /\ PrintedEntries[n].byError
                         = (BrokenResults[n].Error # NoError)
                   /\ ~PrintedEntries[n].byError
                         => PrintedEntries[n].status = BrokenResults[n].Status
        ELSE /\ Len(stdout) = Len(results) + 3
             /\ stdout[1].k = "banner"
             /\ stdout[2].k = "header"
             /\ stdout[Len(stdout)].k = "summary"
             /\ stdout[Len(stdout)].total = Len(results)
             /\ stdout[Len(stdout)].broken = NumBroken
             /\ Len(PrintedEntries) = Len(results)
             /\ \A n \in DOMAIN PrintedEntries :
                   /\ PrintedEntries[n].url = results[n].URL
                   /\ PrintedEntries[n].ok = ~results[n].IsBroken

\* a quiet report is out with an entry for a failed request and one for a
\* status of 400 or more, and none for the sound results of the run
C28_Witness ==
    /\ ~jsonFlag /\ quietFlag
    /\ mainpc = "final"
    /\ \E n \in DOMAIN PrintedEntries : PrintedEntries[n].byError
    /\ \E n \in DOMAIN PrintedEntries : ~PrintedEntries[n].byError
    /\ Len(results) > Len(PrintedEntries)

\* the links of a page that the crawl would follow from it: the page is of
\* the root's domain and answers with a status below 400 and a readable body
LinksOf(web, root, u) ==
    LET resp == Get(web, u)
    IN  IF /\ isSameDomain(u, root)
           /\ resp.err = NoError /\ resp.status < 400 /\ ~resp.bodyErr
        THEN Range(extractLinks(resp.body, u))
        ELSE {}

\* the URLs at most n links away from the root
RECURSIVE Within(_, _, _)
Within(web, root, n) ==
    IF n = 0 THEN {root}
    ELSE LET near == Within(web, root, n - 1)
         IN  near \cup UNION {LinksOf(web, root, u) : u \in near}

\* the same-domain URLs within the depth limit
InDepth(web, root) ==
    {u \in Within(web, root, maxDepth) : isSameDomain(u, root)}

\* C29 as stated: when a crawl has ended, every URL of the root's domain
\* that is at most maxDepth links away from the root, through pages of that
\* domain which answer below 400, has been requested and has a LinkResult.
C29_CoversDepth ==
    (mode = "crawl" /\ WaitReturned) =>
        \A u \in InDepth(site, urls[1]) :
            fetchCount[u] = 1 /\ ResultsFor(u) # {}

\* the URLs a crawl checks when every page is claimed at its least depth:
\* all that are at most maxDepth links away from the root, links to other
\* domains included
Checked(web, root) == Within(web, root, maxDepth)

BrokenAnswer(resp) == resp.err # NoError \/ resp.status >= 400

\* C30 as stated: the URLs of the final results, the broken count and the
\* exit code of a crawl depend on the site and the root alone: they are
\* those of the run in which every page is claimed at its least depth.
C30_Deterministic ==
    (mode = "crawl" /\ mainpc \in {"final", "exit"}) =>
        LET checked == Checked(site, urls[1])
            broken == {u \in checked : BrokenAnswer(Get(site, u))}
        IN  /\ {results[k].URL : k \in DOMAIN results} = checked
            /\ brokenCount = Cardinality(broken)
            /\ (mainpc = "exit" /\ ~jsonFlag)
                  => exitCode = IF broken = {} THEN 0 ELSE 1

\* the same, on every site but the one where /b is linked from the root and
\* from /a
DeterministicElsewhere == site # DiamondSite => C30_Deterministic

\* the run on that site in which /b is claimed at depth 1, so that /x is
\* checked
LeastDepthRun ==
    /\ site = DiamondSite /\ mainpc = "exit" /\ ~jsonFlag
    /\ ResultsFor(PageX) # {}
    /\ exitCode = 1

----------------------------------------------------------------------------
\* a crawl goroutine that went on to the range loop over its page's links
Expanded(t) == tasks[t].kind = "crawl" /\ tasks[t].i >= 1

\* the goroutines started for a link found on the page p
StartedBy(p) ==
    {c \in TaskIds : /\ tasks[c].kind \in {"crawl", "probe"}
                     /\ tasks[c].sourceURL # Empty
                     /\ tasks[c].sourceURL = tasks[p].targetURL}

\* C31: a crawl goroutine of depth maxDepth never reaches the loop over
\* the links of its page; every goroutine started for a link was started
\* by an expanded page of depth below maxDepth; and on the site whose only
\* cross-domain link stands on the page of depth maxDepth, neither that
\* link nor the same-domain link next to it is ever claimed or requested.
C31_DeepPageNotExpanded ==
    /\ \A t \in TaskIds :
          (tasks[t].kind = "crawl" /\ tasks[t].depth >= maxDepth) =>
              /\ ~Expanded(t)
              /\ tasks[t].links = <<>>
              /\ tasks[t].pc \notin {"loop", "l_checked"}
    /\ \A c \in TaskIds :
          (tasks[c].kind \in {"crawl", "probe"}
              /\ tasks[c].sourceURL # Empty) =>
              \E p \in TaskIds : /\ Expanded(p)
                                 /\ tasks[p].depth < maxDepth
                                 /\ c \in StartedBy(p)
    /\ (mode = "crawl" /\ site = DeepSite) =>
          \A u \in {ExtY, PageC} :
              /\ u \notin visited
              /\ fetchCount[u] = 0
              /\ ResultsFor(u) = {}

\* the crawl of that site is over: /b was fetched at depth maxDepth with
\* status 200 and is recorded, and its goroutine has returned
C31_Witness ==
    /\ site = DeepSite
    /\ mainpc = "exit"
    /\ \E t \in TaskIds : /\ tasks[t].kind = "crawl"
                           /\ tasks[t].targetURL = PageB
                           /\ tasks[t].depth = maxDepth
                           /\ tasks[t].resp.status = 200
                           /\ tasks[t].pc = "done"
    /\ \E k \in DOMAIN results :
          results[k].URL = PageB /\ results[k].Status = 200
    /\ Len(results) = 3

----------------------------------------------------------------------------
\* the URL strings of the entries of the results slice
ResultURLs == {results[k].URL : k \in DOMAIN results}

\* C32: in a crawl no result is ever recorded for a URL string that was
\* not claimed first, and once wg.Wait has returned the claimed strings are
\* exactly the URLs of the results: each claimed string was requested once
\* and has one result, and no other URL was requested.
C32_ClaimedEqualsRecorded ==
    mode = "crawl" =>
        /\ ResultURLs \subseteq visited
        /\ WaitReturned =>
              /\ visited = ResultURLs
              /\ \A u \in visited :
                    Cardinality(ResultsFor(u)) = 1 /\ fetchCount[u] = 1
              /\ \A u \in DOMAIN fetchCount :
                    u \notin visited => fetchCount[u] = 0

\* the crawl with transport errors is over: five strings were claimed, by
\* crawl goroutines for their targets and by a page for a cross-domain
\* link, and a second link to the cross-domain URL found it claimed
C32_Witness ==
    /\ mode = "crawl"
    /\ site = ErrorSite
    /\ mainpc = "exit"
    /\ visited = {Root, PageA, PageB, PageC, ExtE}
    /\ Len(results) = 5
    /\ \E t \in TaskIds : tasks[t].kind = "probe" /\ tasks[t].targetURL = ExtE

----------------------------------------------------------------------------
\* the result j is that of a working page of the root's host, recorded by
\* a crawl goroutine of depth below maxDepth that went through its links,
\* the URL of the result k among them
SourceOf(j, k) ==
    /\ results[j].URL = results[k].SourceURL
    /\ results[j].Error = NoError
    /\ results[j].Status < 400
    /\ isSameDomain(results[j].URL, urls[1])
    /\ \E p \in TaskIds :
          /\ tasks[p].kind = "crawl"
          /\ tasks[p].result = results[j]
          /\ tasks[p].depth < maxDepth
          /\ Expanded(p)
          /\ results[k].URL \in Range(tasks[p].links)

\* C33: in a crawl every result with a non-empty SourceURL has in the
\* slice the result of that source URL, which has no Error, a Status below
\* 400 and the host of the start URL, and was recorded by a goroutine of
\* depth below maxDepth on whose page the link to this result's URL stands.
C33_SourceIsExpandedPage ==
    mode = "crawl" =>
        \A k \in DOMAIN results :
            results[k].SourceURL # Empty =>
                \E j \in DOMAIN results : SourceOf(j, k)

\* the crawl with transport errors is over and the cross-domain URL was
\* claimed by /b, a page of depth 1: its result and that of /c name /b
C33_Witness ==
    /\ mode = "crawl"
    /\ site = ErrorSite
    /\ mainpc = "exit"
    /\ \E k \in DOMAIN results :
          results[k].URL = ExtE /\ results[k].SourceURL = PageB
    /\ \E k \in DOMAIN results :
          results[k].URL = PageC /\ results[k].SourceURL = PageB

----------------------------------------------------------------------------
\* what the start URL of the crawl answers
RootAnswer == Get(site, urls[1])

\* the root's fetch fails, or returns a status >= 400, or its page has no
\* link to follow
RootAlone ==
    \/ RootAnswer.err # NoError
    \/ RootAnswer.status >= 400
    \/ extractLinks(RootAnswer.body, urls[1]) = <<>>

\* C34: in a crawl the start URL is requested at most once and, when
\* wg.Wait has returned, exactly once; its result is the first entry of
\* the slice and the only entry with an empty SourceURL; and when the
\* root's fetch fails, returns a status >= 400 or its page has no links,
\* the run ends with exactly one result.
C34_RootResult ==
    mode = "crawl" =>
        /\ fetchCount[urls[1]] <= 1
        /\ results # <<>> =>
              results[1].URL = urls[1] /\ results[1].SourceURL = Empty
        /\ \A k \in DOMAIN results : results[k].SourceURL = Empty => k = 1
        /\ WaitReturned =>
              /\ fetchCount[urls[1]] = 1
              /\ Cardinality(ResultsFor(urls[1])) = 1
              /\ RootAlone => Len(results) = 1

\* the crawl of the mutually linking pages is over: /a linked back to the
\* root, the goroutine started for that link found the root claimed, and
\* the root's result stands first of three
C34_Witness ==
    /\ mode = "crawl"
    /\ site = MutualSite
    /\ mainpc = "exit"
    /\ Len(results) = 3
    /\ results[1].URL = Root
    /\ fetchCount[Root] = 1
    /\ \E t \in TaskIds : /\ tasks[t].kind = "crawl"
                           /\ tasks[t].targetURL = Root
                           /\ tasks[t].sourceURL = PageA
                           /\ tasks[t].pc = "done"

\* runs of a root that stays alone: a page without links, a 404 with a
\* link in its body, a refused connection
RootAloneRun(web) ==
    /\ mode = "crawl"
    /\ site = web
    /\ mainpc = "exit"
    /\ RootAlone
    /\ Len(results) = 1
    /\ results[1].URL = urls[1]

SinglePageRun == RootAloneRun(SinglePageSite) /\ results[1].Status = 200
RootBrokenRun == RootAloneRun(RootBrokenSite) /\ results[1].IsBroken
RootDownRun == RootAloneRun(DownSite) /\ results[1].Error # NoError

----------------------------------------------------------------------------
\* the goroutines that were started and have not yet run their wg.Done
Unfinished == {t \in TaskIds : tasks[t].pc # "done"}

\* the goroutine t runs its deferred wg.Done in this step
Finishes(t) == tasks[t].pc # "done" /\ tasks'[t].pc = "done"

\* the counter is the number of unfinished goroutines and is never negative
WgCounts == wg = Cardinality(Unfinished) /\ wg >= 0

\* the counter moves by one: up exactly when a goroutine is started, down
\* exactly when one goroutine returns, and a returned goroutine stays so
WgSteps ==
    /\ wg' \in {wg - 1, wg, wg + 1}
    /\ (wg' = wg + 1) = (Len(tasks') = Len(tasks) + 1)
    /\ (wg' = wg - 1) = (\E t \in TaskIds : Finishes(t))
    /\ Cardinality({t \in TaskIds : Finishes(t)}) <= 1
    /\ \A t \in TaskIds : tasks[t].pc = "done" => tasks'[t].pc = "done"

\* in a crawl the goroutine that adds for a child is itself still counted
ParentStillCounted ==
    (wg' > wg /\ mode' = "crawl" /\ tasks # <<>>) =>
        \E p \in Unfinished :
            /\ tasks'[p].pc # "done"
            /\ tasks'[Len(tasks')].sourceURL = tasks[p].targetURL

\* the counter was positive and is back at zero
BackAtZero == wg = 0 /\ tasks # <<>>

\* C35 as stated: the counter is the number of unfinished goroutines, moves
\* by one per start and per return, is never negative, is raised in a crawl
\* by a goroutine that is still counted, and is never raised once it is
\* back at zero.
C35_Original ==
    /\ []WgCounts
    /\ [][WgSteps /\ ParentStillCounted]_vars
    /\ [][wg' > wg => ~BackAtZero]_vars

\* C35, amended: the same, but the counter is never raised once it is back
\* at zero only in a crawl; checkURLs raises it in its loop, where it can
\* be back at zero between two iterations, and never after the loop; and
\* nothing raises it once wg.Wait has returned.
C35_WgCountsUnfinished ==
    /\ []WgCounts
    /\ [][WgSteps /\ ParentStillCounted]_vars
    /\ [][wg' > wg =>
            /\ ~WaitReturned
            /\ mode' = "crawl" => ~BackAtZero
            /\ mode' = "batch" => mainpc = "spawn"]_vars

\* checkURLs is in its loop with a URL left, and the goroutine started for
\* the first URL has already returned: the counter is back at zero
C35_Witness ==
    /\ mode = "batch"
    /\ mainpc = "spawn"
    /\ spawnIdx <= Len(urls)
    /\ Len(tasks) = 1
    /\ tasks[1].pc = "done"
    /\ wg = 0
    /\ Len(results) = 1

\* a crawl with several goroutines at once: the counter is 3 while the
\* root is still in its loop and two children run
WgCrawlRun ==
    /\ mode = "crawl"
    /\ wg = 3
    /\ tasks[1].pc = "loop"
    /\ Cardinality(Unfinished) = 3

====
